---- MODULE Spec2Model ----
(***************************************************************************)
(* Model of the assignment solver of the CIT actor scheduler,              *)
(* src/src/scheduler.js: generateSchedule with its helpers (availability   *)
(* normalizer, slot enumeration, eligibility profile, constraint filter,   *)
(* candidate ranker, backtracking search with MRV and forward checking at  *)
(* relaxation levels 0..3, greedy fallback with diagnostics).              *)
(*                                                                         *)
(* Encoding of JavaScript values:                                          *)
(*   null person / null cell      the string "null"                        *)
(*   a date "YYYY-MM-DD"          a positive day number, day 1 a Monday;   *)
(*                                NoDate (0) is a null date of a week plan *)
(*   new Date(y,m-1,d).getDay()   date % 7 (0 = Sunday)                     *)
(*   weekKey `week${wi}`          the week index wi (0-based, as in code)  *)
(*   raw availability values      the strings "true" "false" "both" "am"   *)
(*                                "pm" "unset" "junk"                      *)
(*   maxPMRatio                   a percentage 0..100, NoRatio when unset; *)
(*                                pm/usage >= ratio is pm*100 >= pct*usage *)
(*   a missing actorConstraints   the record with no allowed days, no      *)
(*   entry                        ratio and preferAM false (every use in   *)
(*                                the code is optional-chained)            *)
(*   wa[week][shift][actor]       a total function to sets; a missing key  *)
(*                                is the empty set (the code reads it with *)
(*                                ?.size > 0 only)                         *)
(***************************************************************************)
EXTENDS Integers, Sequences, FiniteSets, TLC

VARIABLES
    weeks, weekPlans, availability, config,   \* the four arguments of a call
    pc,             \* position of the running call
    eligibleCount,  \* scheduler.js:108   actor -> count
    allSlots,       \* scheduler.js:135   enumerated slot list
    skeleton,       \* scheduler.js:136   empty schedule tree
    relaxLevel,     \* scheduler.js:270   loop variable
    state,          \* scheduler.js:271 / 307   the search state of the attempt
    slots,          \* scheduler.js:272   the [...allSlots] copy that MRV reorders
    idx,            \* argument of the pending / returning backtrack call
    stack,          \* active backtrack invocations that are inside the candidate loop;
                    \* a frame holds the locals (idx, mrvIdx, slot, candidates, ci)
                    \* and, as history, slot list and state as the invocation found them
    retval,         \* value returned by the backtrack call that just returned
    fbSlots,        \* the slots the fallback loops of scheduler.js:310-323 visit, in order
    fbIdx,          \* position of the fallback in fbSlots
    errors,         \* scheduler.js:308
    attempts,       \* history: per relaxation level, how its attempt in this call ended
    returned        \* history: the {schedule, errors} values returned by finished calls

vars == <<weeks, weekPlans, availability, config, pc, eligibleCount, allSlots,
          skeleton, relaxLevel, state, slots, idx, stack, retval, fbSlots,
          fbIdx, errors, attempts, returned>>

inputs == <<weeks, weekPlans, availability, config>>

----------------------------------------------------------------------------
(* Bounds of the model *)

MaxWeeks == 2
MaxCalls == 2
\* The expansion budget of one attempt.  The code's literal is 50000
\* (scheduler.js:237); the model scales it down so that exhausting it is a
\* reachable case.
BacktrackBudget == 12

----------------------------------------------------------------------------
(* Constants of the program *)

SLOT_KEYS == <<"slot1", "slot2", "slot3">>
SHIFTS == <<"AM", "PM">>
DAYS_LONG == <<"Sunday", "Monday", "Tuesday", "Wednesday", "Thursday", "Friday", "Saturday">>

Null == "null"
NoDate == 0
NoRatio == -1

Range(s) == {s[i] : i \in DOMAIN s}
SlotKeySet == Range(SLOT_KEYS)
ShiftSet == Range(SHIFTS)

\* DAYS_LONG[new Date(y, m - 1, d).getDay()]
DayName(date) == DAYS_LONG[(date % 7) + 1]

----------------------------------------------------------------------------
(* Availability helpers *)

\* a normalizer without the legacy boolean: true is not recognised
normalizeAvail_NoLegacyTrue(val) ==
    IF val = "both" THEN "both"
    ELSE IF val = "am" THEN "am"
    ELSE IF val = "pm" THEN "pm"
    ELSE "false"

\* scheduler.js:14-19; "true" and "false" stand for the booleans, "unset" for
\* undefined, any other string for itself
normalizeAvail(val) ==
    IF val = "true" \/ val = "both" THEN "both"
    ELSE IF val = "am" THEN "am"
    ELSE IF val = "pm" THEN "pm"
    ELSE "false"

isAvailableForShift(availValue, shift) ==
    LET norm == normalizeAvail(availValue) IN
    IF norm = "false" THEN FALSE
    ELSE IF norm = "both" THEN TRUE
    ELSE (norm = "am" /\ shift = "AM") \/ (norm = "pm" /\ shift = "PM")

\* availability[date] || {}, then [actor]: a missing date or actor reads undefined
DayAvail(date, actor) ==
    IF date \in DOMAIN availability /\ actor \in DOMAIN availability[date]
    THEN availability[date][actor] ELSE "unset"

----------------------------------------------------------------------------
(* Week plans *)

\* weekDays.find(wd => wd.dayName === targetDay): the first match
FindDay(weekDays, targetDay) ==
    LET hits == {i \in DOMAIN weekDays : weekDays[i].dayName = targetDay} IN
    IF hits = {} THEN NoDate
    ELSE weekDays[CHOOSE i \in hits : \A j \in hits : i <= j].date

getDefaultWeekPlan(weekDays, cfg) ==
    [slotKey \in SlotKeySet |-> FindDay(weekDays, cfg.defaultDays[slotKey])]

\* weekPlans[weekKey] || getDefaultWeekPlan(weeks[wi], config)
WeekPlan(wi) ==
    IF wi \in DOMAIN weekPlans THEN weekPlans[wi]
    ELSE getDefaultWeekPlan(weeks[wi + 1], config)

WeekIndexes == 0 .. (Len(weeks) - 1)

\* slotScenarios[slotKey] || []
SlotScenarios(slotKey) ==
    IF slotKey \in DOMAIN config.slotScenarios THEN config.slotScenarios[slotKey] ELSE <<>>

\* scenarioActors[scenario] || []
Approved(scenario) ==
    IF scenario \in DOMAIN config.scenarioActors THEN config.scenarioActors[scenario] ELSE <<>>

ActorSet == Range(config.actors)

\* config.actorConstraints?.[actor]
Constraint(actor) ==
    IF actor \in DOMAIN config.actorConstraints THEN config.actorConstraints[actor]
    ELSE [allowedDays |-> {}, maxPMRatio |-> NoRatio, preferAM |-> FALSE]

----------------------------------------------------------------------------
(* Sequence helpers standing for JavaScript array operations *)

\* Array.prototype.sort with comparator cmp (a function on pairs): a stable sort.
\* InsertSorted puts x behind every element that does not compare greater than x.
RECURSIVE InsertSorted(_, _, _)
InsertSorted(sorted, x, cmp) ==
    IF sorted = <<>> THEN <<x>>
    ELSE IF cmp[<<Head(sorted), x>>] > 0 THEN <<x>> \o sorted
    ELSE <<Head(sorted)>> \o InsertSorted(Tail(sorted), x, cmp)

\* The sorted prefix is bound as a value (prefix \in {...}) before the last
\* element is inserted into it.
RECURSIVE StableSort(_, _)
StableSort(seq, cmp) ==
    IF seq = <<>> THEN <<>>
    ELSE CHOOSE sorted \in {InsertSorted(prefix, seq[Len(seq)], cmp) :
                               prefix \in {StableSort(SubSeq(seq, 1, Len(seq) - 1), cmp)}} : TRUE

\* [a[i], a[j]] = [a[j], a[i]]
Swap(seq, i, j) == [seq EXCEPT ![i] = seq[j], ![j] = seq[i]]

\* Array.prototype.flatMap over a sequence of sequences
RECURSIVE Flatten(_)
Flatten(ss) == IF ss = <<>> THEN <<>> ELSE Head(ss) \o Flatten(Tail(ss))

----------------------------------------------------------------------------
(* Slot enumeration, skeleton and eligibility profile *)

\* The slots of one day slot: for (shift of SHIFTS) for (scenario of slotScenarios[slotKey])
DaySlots(wi, slotKey, date) ==
    Flatten([si \in 1..Len(SHIFTS) |->
        [ci \in 1..Len(SlotScenarios(slotKey)) |->
            [wi |-> wi, slotKey |-> slotKey, shift |-> SHIFTS[si],
             scenario |-> SlotScenarios(slotKey)[ci], date |-> date]]])

WeekSlots(wi) ==
    Flatten([ki \in 1..Len(SLOT_KEYS) |->
        IF WeekPlan(wi)[SLOT_KEYS[ki]] = NoDate THEN <<>>
        ELSE DaySlots(wi, SLOT_KEYS[ki], WeekPlan(wi)[SLOT_KEYS[ki]])])

\* allSlots as built by the loop of scheduler.js:137-153
EnumerateSlots == Flatten([w \in 1..Len(weeks) |-> WeekSlots(w - 1)])

\* a skeleton that gives a canceled day the cells of its configured scenarios
BuildSkeleton_CellsOnCanceledDays ==
    [wi \in WeekIndexes |->
        [slotKey \in SlotKeySet |->
            [date |-> WeekPlan(wi)[slotKey],
             AM |-> [sc \in Range(SlotScenarios(slotKey)) |-> Null],
             PM |-> [sc \in Range(SlotScenarios(slotKey)) |-> Null]]]]

\* skeleton as built by the same loop; a canceled day is the record with date NoDate
BuildSkeleton ==
    [wi \in WeekIndexes |->
        [slotKey \in SlotKeySet |->
            IF WeekPlan(wi)[slotKey] = NoDate
            THEN [date |-> NoDate, AM |-> <<>>, PM |-> <<>>]
            ELSE [date |-> WeekPlan(wi)[slotKey],
                  AM |-> [sc \in Range(SlotScenarios(slotKey)) |-> Null],
                  PM |-> [sc \in Range(SlotScenarios(slotKey)) |-> Null]]]]

\* The test of scheduler.js:121-126 for one (slot, actor) pair
CountsAsEligible(slot, actor) ==
    /\ isAvailableForShift(DayAvail(slot.date, actor), slot.shift)
    /\ \/ Constraint(actor).allowedDays = {}
       \/ DayName(slot.date) \in Constraint(actor).allowedDays

\* eligibleCount: one increment per (slot, position of the actor in the approved list)
ComputeEligibleCount(slotList) ==
    [actor \in ActorSet |->
        Cardinality({<<i, j>> \in (DOMAIN slotList) \X (1..Cardinality(ActorSet)) :
            /\ j \in DOMAIN Approved(slotList[i].scenario)
            /\ Approved(slotList[i].scenario)[j] = actor
            /\ CountsAsEligible(slotList[i], actor)})]

----------------------------------------------------------------------------
(* Search state *)

\* a freshState that takes the usage counts over from what the previous
\* search left in memory instead of zeroing them
freshState_KeepUsage(skel) ==
    [schedule |-> skel,
     wa |-> [wi \in DOMAIN skel |-> [sh \in ShiftSet |-> [a \in ActorSet |-> {}]]],
     usageCount |-> IF DOMAIN state.usageCount = ActorSet THEN state.usageCount
                    ELSE [a \in ActorSet |-> 0],
     pmCount |-> [a \in ActorSet |-> 0],
     backtrackCount |-> 0]

\* scheduler.js:156-173  a new state object: the skeleton's cells, empty
\* weekShiftUsage, zero counters
freshState(skel) ==
    [schedule |-> skel,
     wa |-> [wi \in DOMAIN skel |-> [sh \in ShiftSet |-> [a \in ActorSet |-> {}]]],
     usageCount |-> [a \in ActorSet |-> 0],
     pmCount |-> [a \in ActorSet |-> 0],
     backtrackCount |-> 0]

\* applyAssign that does not record the scenario in wa
applyAssign_NoWeekUsage(st, slot, actor) ==
    [st EXCEPT
        !.schedule[slot.wi][slot.slotKey][slot.shift][slot.scenario] = actor,
        !.usageCount[actor] = @ + 1,
        !.pmCount[actor] = IF slot.shift = "PM" THEN @ + 1 ELSE @]

\* applyAssign that counts every assignment as an evening one
applyAssign_PmOnEveryShift(st, slot, actor) ==
    [st EXCEPT
        !.schedule[slot.wi][slot.slotKey][slot.shift][slot.scenario] = actor,
        !.wa[slot.wi][slot.shift][actor] = @ \cup {slot.scenario},
        !.usageCount[actor] = @ + 1,
        !.pmCount[actor] = @ + 1]

\* scheduler.js:175-184
applyAssign(st, slot, actor) ==
    [st EXCEPT
        !.schedule[slot.wi][slot.slotKey][slot.shift][slot.scenario] = actor,
        !.wa[slot.wi][slot.shift][actor] = @ \cup {slot.scenario},
        !.usageCount[actor] = @ + 1,
        !.pmCount[actor] = IF slot.shift = "PM" THEN @ + 1 ELSE @]

\* an undo that leaves the evening counter as it is
undoAssign_KeepsPmCount(st, slot, actor) ==
    [st EXCEPT
        !.schedule[slot.wi][slot.slotKey][slot.shift][slot.scenario] = Null,
        !.wa[slot.wi][slot.shift][actor] = @ \ {slot.scenario},
        !.usageCount[actor] = @ - 1]

\* scheduler.js:186-194
undoAssign(st, slot, actor) ==
    [st EXCEPT
        !.schedule[slot.wi][slot.slotKey][slot.shift][slot.scenario] = Null,
        !.wa[slot.wi][slot.shift][actor] = @ \ {slot.scenario},
        !.usageCount[actor] = @ - 1,
        !.pmCount[actor] = IF slot.shift = "PM" THEN @ - 1 ELSE @]

----------------------------------------------------------------------------
(* Constraint filter and ranker *)

\* w = one week of wa: w[shift][actor] is a set of scenarios
hasConflict(actor, scenario, shift, w, conflicts) ==
    /\ Len(conflicts) > 0
    /\ w[shift][actor] # {}
    /\ \E r \in DOMAIN conflicts :
        /\ conflicts[r].scope = "same_shift"
        /\ Len(conflicts[r].actor_cannot_play) >= 2
        /\ scenario \in Range(conflicts[r].actor_cannot_play)
        /\ \E other \in Range(conflicts[r].actor_cannot_play) :
              other # scenario /\ other \in w[shift][actor]

\* the evening-ratio test without the maxPMRatio === 0 case of scheduler.js:213
PMCapBars_NoZeroCase(actor, st) ==
    /\ st.usageCount[actor] > 0
    /\ st.pmCount[actor] * 100 >= Constraint(actor).maxPMRatio * st.usageCount[actor]

\* the evening-ratio test of scheduler.js:212-216 and 298-302
PMCapBars(actor, st) ==
    \/ Constraint(actor).maxPMRatio = 0
    \/ /\ st.usageCount[actor] > 0
       /\ st.pmCount[actor] * 100 >= Constraint(actor).maxPMRatio * st.usageCount[actor]

\* the filter without the allowedDays test of scheduler.js:208-211
EligibleActor_NoAllowedDays(actor, slot, st, relax) ==
    /\ isAvailableForShift(DayAvail(slot.date, actor), slot.shift)
    /\ st.wa[slot.wi][slot.shift][actor] = {}
    /\ ~(relax < 3 /\ hasConflict(actor, slot.scenario, slot.shift, st.wa[slot.wi], config.conflicts))
    /\ ~(/\ relax < 1
         /\ slot.shift = "PM"
         /\ Constraint(actor).maxPMRatio # NoRatio
         /\ PMCapBars(actor, st))

\* the filter without the availability test of scheduler.js:204
EligibleActor_NoAvailability(actor, slot, st, relax) ==
    /\ st.wa[slot.wi][slot.shift][actor] = {}
    /\ ~(relax < 3 /\ hasConflict(actor, slot.scenario, slot.shift, st.wa[slot.wi], config.conflicts))
    /\ ~(/\ relax < 2
         /\ Constraint(actor).allowedDays # {}
         /\ DayName(slot.date) \notin Constraint(actor).allowedDays)
    /\ ~(/\ relax < 1
         /\ slot.shift = "PM"
         /\ Constraint(actor).maxPMRatio # NoRatio
         /\ PMCapBars(actor, st))

\* the filter without the week+shift uniqueness test of scheduler.js:205
EligibleActor_NoWeekShiftRule(actor, slot, st, relax) ==
    /\ isAvailableForShift(DayAvail(slot.date, actor), slot.shift)
    /\ ~(relax < 3 /\ hasConflict(actor, slot.scenario, slot.shift, st.wa[slot.wi], config.conflicts))
    /\ ~(/\ relax < 2
         /\ Constraint(actor).allowedDays # {}
         /\ DayName(slot.date) \notin Constraint(actor).allowedDays)
    /\ ~(/\ relax < 1
         /\ slot.shift = "PM"
         /\ Constraint(actor).maxPMRatio # NoRatio
         /\ (\/ Constraint(actor).maxPMRatio = 0
             \/ /\ st.usageCount[actor] > 0
                /\ st.pmCount[actor] * 100 >= Constraint(actor).maxPMRatio * st.usageCount[actor]))

EligibleActor(actor, slot, st, relax) ==
    /\ isAvailableForShift(DayAvail(slot.date, actor), slot.shift)
    /\ st.wa[slot.wi][slot.shift][actor] = {}
    /\ ~(relax < 3 /\ hasConflict(actor, slot.scenario, slot.shift, st.wa[slot.wi], config.conflicts))
    /\ ~(/\ relax < 2
         /\ Constraint(actor).allowedDays # {}
         /\ DayName(slot.date) \notin Constraint(actor).allowedDays)
    /\ ~(/\ relax < 1
         /\ slot.shift = "PM"
         /\ Constraint(actor).maxPMRatio # NoRatio
         /\ PMCapBars(actor, st))

\* a filter that returns the eligible people last-approved first
getEligible_ReverseOrder(slot, st, relax) ==
    LET kept == SelectSeq(Approved(slot.scenario),
                          LAMBDA actor : EligibleActor(actor, slot, st, relax))
    IN  [i \in DOMAIN kept |-> kept[Len(kept) + 1 - i]]

\* scheduler.js:198-219  approved.filter(actor => ...)
getEligible(slot, st, relax) ==
    SelectSeq(Approved(slot.scenario), LAMBDA actor : EligibleActor(actor, slot, st, relax))

\* a comparator that applies the morning preference on every shift
RankCmp_PreferAMAlways(a, b, shift, st, elig) ==
    LET ud == st.usageCount[a] - st.usageCount[b]
        pa == IF Constraint(a).preferAM THEN 1 ELSE 0
        pb == IF Constraint(b).preferAM THEN 1 ELSE 0
    IN  IF ud # 0 THEN ud
        ELSE IF pa # pb THEN pa - pb
        ELSE elig[a] - elig[b]

\* the comparator of rankCandidates
RankCmp(a, b, shift, st, elig) ==
    LET ud == st.usageCount[a] - st.usageCount[b]
        pa == IF Constraint(a).preferAM THEN 1 ELSE 0
        pb == IF Constraint(b).preferAM THEN 1 ELSE 0
    IN  IF ud # 0 THEN ud
        ELSE IF shift = "PM" /\ pa # pb THEN pa - pb
        ELSE elig[a] - elig[b]

\* a ranking that leaves the candidates in the order of the approved list
rankCandidates_Unranked(candidates, shift, st, elig) == candidates

\* scheduler.js:221-232  [...candidates].sort(by usage, PM preference, scarcity)
rankCandidates(candidates, shift, st, elig) ==
    StableSort(candidates,
               [p \in Range(candidates) \X Range(candidates) |->
                    RankCmp(p[1], p[2], shift, st, elig)])

candidateCount(scenario, date, shift) ==
    Len(SelectSeq(Approved(scenario),
                  LAMBDA actor : isAvailableForShift(DayAvail(date, actor), shift)))

----------------------------------------------------------------------------
(* Diagnostics of the greedy fallback *)

\* explainElim without the allowedDays test of scheduler.js:293-297
explainElim_NoDayReason(actor, slot, st) ==
    LET norm == normalizeAvail(DayAvail(slot.date, actor))
        ac == Constraint(actor)
    IN  IF ~isAvailableForShift(DayAvail(slot.date, actor), slot.shift)
        THEN IF norm # "false"
             THEN (IF norm = "am" THEN "Only available AM" ELSE "Only available PM")
             ELSE "Not marked available"
        ELSE IF st.wa[slot.wi][slot.shift][actor] # {} THEN "Already used"
        ELSE IF slot.shift = "PM" /\ ac.maxPMRatio # NoRatio /\ ac.maxPMRatio = 0
             THEN "PM not permitted"
        ELSE IF slot.shift = "PM" /\ ac.maxPMRatio # NoRatio /\ PMCapBars(actor, st)
             THEN "PM cap reached"
        ELSE IF hasConflict(actor, slot.scenario, slot.shift, st.wa[slot.wi], config.conflicts)
             THEN "Conflict rule"
        ELSE "none"

\* explainElim with the conflict-rule test moved in front of the week+shift test
explainElim_ConflictFirst(actor, slot, st) ==
    LET norm == normalizeAvail(DayAvail(slot.date, actor))
        ac == Constraint(actor)
    IN  IF ~isAvailableForShift(DayAvail(slot.date, actor), slot.shift)
        THEN IF norm # "false"
             THEN (IF norm = "am" THEN "Only available AM" ELSE "Only available PM")
             ELSE "Not marked available"
        ELSE IF hasConflict(actor, slot.scenario, slot.shift, st.wa[slot.wi], config.conflicts)
             THEN "Conflict rule"
        ELSE IF st.wa[slot.wi][slot.shift][actor] # {} THEN "Already used"
        ELSE IF ac.allowedDays # {} /\ DayName(slot.date) \notin ac.allowedDays
             THEN "Only available on"
        ELSE IF slot.shift = "PM" /\ ac.maxPMRatio # NoRatio /\ ac.maxPMRatio = 0
             THEN "PM not permitted"
        ELSE IF slot.shift = "PM" /\ ac.maxPMRatio # NoRatio /\ PMCapBars(actor, st)
             THEN "PM cap reached"
        ELSE "none"

\* explainElim: the first reason that applies, "none" for the code's null.
\* The reasons stand for the message templates of scheduler.js:287-303.
explainElim(actor, slot, st) ==
    LET norm == normalizeAvail(DayAvail(slot.date, actor))
        ac == Constraint(actor)
    IN  IF ~isAvailableForShift(DayAvail(slot.date, actor), slot.shift)
        THEN IF norm # "false"
             THEN (IF norm = "am" THEN "Only available AM" ELSE "Only available PM")
             ELSE "Not marked available"
        ELSE IF st.wa[slot.wi][slot.shift][actor] # {} THEN "Already used"
        ELSE IF ac.allowedDays # {} /\ DayName(slot.date) \notin ac.allowedDays
             THEN "Only available on"
        ELSE IF slot.shift = "PM" /\ ac.maxPMRatio # NoRatio /\ ac.maxPMRatio = 0
             THEN "PM not permitted"
        ELSE IF slot.shift = "PM" /\ ac.maxPMRatio # NoRatio /\ PMCapBars(actor, st)
             THEN "PM cap reached"
        ELSE IF hasConflict(actor, slot.scenario, slot.shift, st.wa[slot.wi], config.conflicts)
             THEN "Conflict rule"
        ELSE "none"

\* approved.flatMap(actor => r ? [{actor, reason: r}] : [])
Eliminations(slot, st) ==
    Flatten([i \in DOMAIN Approved(slot.scenario) |->
        LET actor == Approved(slot.scenario)[i]
            r == explainElim(actor, slot, st)
        IN  IF r # "none" THEN <<[actor |-> actor, reason |-> r]>> ELSE <<>>])

\* the suggestion text of scheduler.js:338-340, by template and count
Suggestion(approved, eliminations) ==
    LET filledCount == Len(approved) - Len(eliminations) IN
    IF filledCount = 0
    THEN [kind |-> "All approved actors blocked", count |-> Len(approved)]
    ELSE [kind |-> "eligible but already placed", count |-> filledCount]

\* the record pushed at scheduler.js:333-341
Diagnostic(slot, st) ==
    [slot |-> <<slot.wi + 1, slot.date, slot.shift>>,
     scenario |-> slot.scenario, shift |-> slot.shift, date |-> slot.date,
     weekKey |-> slot.wi, slotKey |-> slot.slotKey,
     approvedActors |-> Approved(slot.scenario),
     eliminations |-> Eliminations(slot, st),
     suggestion |-> Suggestion(Approved(slot.scenario), Eliminations(slot, st))]

\* [...slotScenarios[slotKey]].sort(by candidateCount) for one day and shift
scenarioOrder(slotKey, date, shift) ==
    StableSort(SlotScenarios(slotKey),
               [p \in Range(SlotScenarios(slotKey)) \X Range(SlotScenarios(slotKey)) |->
                    candidateCount(p[1], date, shift) - candidateCount(p[2], date, shift)])

\* The slots in the order the fallback loops of scheduler.js:310-323 visit them
FallbackDaySlots(wi, slotKey, date) ==
    Flatten([si \in 1..Len(SHIFTS) |->
        [ci \in 1..Len(SlotScenarios(slotKey)) |->
            [wi |-> wi, slotKey |-> slotKey, shift |-> SHIFTS[si],
             scenario |-> scenarioOrder(slotKey, date, SHIFTS[si])[ci], date |-> date]]])

FallbackWeekSlots(wi) ==
    Flatten([ki \in 1..Len(SLOT_KEYS) |->
        IF WeekPlan(wi)[SLOT_KEYS[ki]] = NoDate THEN <<>>
        ELSE FallbackDaySlots(wi, SLOT_KEYS[ki], WeekPlan(wi)[SLOT_KEYS[ki]])])

FallbackOrder == Flatten([w \in 1..Len(weeks) |-> FallbackWeekSlots(w - 1)])

\* a sort of the configured list itself: every list of slotScenarios is left
\* in the order of its last sort (the evening shift of the last week with a
\* date for the day slot)
ConfigAfterScenarioSort_InPlace(cfg) ==
    [cfg EXCEPT !.slotScenarios =
        [sk \in DOMAIN cfg.slotScenarios |->
            LET dated == {wi \in WeekIndexes : WeekPlan(wi)[sk] # NoDate}
            IN  IF dated = {} THEN cfg.slotScenarios[sk]
                ELSE scenarioOrder(sk, WeekPlan(CHOOSE wi \in dated : \A w \in dated : w <= wi)[sk],
                                   "PM")]]

\* scheduler.js:319  [...(slotScenarios[slotKey] || [])].sort(...): the spread
\* makes a new array, sort() reorders that array; the configuration the
\* caller passed keeps every list in its order
ConfigAfterScenarioSort(cfg) == cfg

----------------------------------------------------------------------------
(* Backtracking search: one invocation of backtrack(slots, idx, state, relaxLevel) *)

EligibleCountAt(i, slotList, st, relax) == Len(getEligible(slotList[i + 1], st, relax))

\* a scan with `<=` in the place of `<`: the last position with the least count
MrvIndex_LastOfTies(slotList, from, st, relax) ==
    LET cnt == [i \in from .. (Len(slotList) - 1) |-> EligibleCountAt(i, slotList, st, relax)]
    IN  CHOOSE m \in DOMAIN cnt :
            \A i \in DOMAIN cnt : cnt[m] < cnt[i] \/ (cnt[m] = cnt[i] /\ m >= i)

\* the MRV scan of scheduler.js:240-244: the first position with the least count
MrvIndex(slotList, from, st, relax) ==
    LET cnt == [i \in from .. (Len(slotList) - 1) |-> EligibleCountAt(i, slotList, st, relax)]
    IN  CHOOSE m \in DOMAIN cnt :
            \A i \in DOMAIN cnt : cnt[m] < cnt[i] \/ (cnt[m] = cnt[i] /\ m <= i)

\* a search without the forward check
ForwardOk_Skipped(slotList, from, st, relax) == TRUE

\* a forward check that wants two candidates for every later slot
ForwardOk_WantsTwo(slotList, from, st, relax) ==
    \A i \in (from + 1) .. (Len(slotList) - 1) : EligibleCountAt(i, slotList, st, relax) >= 2

\* the forward check of scheduler.js:257-260
ForwardOk(slotList, from, st, relax) ==
    \A i \in (from + 1) .. (Len(slotList) - 1) : EligibleCountAt(i, slotList, st, relax) # 0

\* a search without the budget test
OverBudget_Never(count) == FALSE

\* ++state.backtrackCount > 50000
OverBudget(count) == count > BacktrackBudget

Top == stack[Len(stack)]
Pop(stk) == SubSeq(stk, 1, Len(stk) - 1)

----------------------------------------------------------------------------
(* Inputs of a call *)

\* One week of the calendar: its business days, as the caller builds them
Week(wi) == [d \in 1..5 |-> [date |-> wi * 7 + d, dayName |-> DayName(wi * 7 + d)]]

Calendar(n) == [w \in 1..n |-> Week(w - 1)]

\* config.defaultDays of DEFAULT_CONFIG
DefaultDays == [slot1 |-> "Tuesday", slot2 |-> "Wednesday", slot3 |-> "Thursday"]

NoConstraint == [allowedDays |-> {}, maxPMRatio |-> NoRatio, preferAM |-> FALSE]

XYRule == <<[actor_cannot_play |-> <<"X", "Y">>, scope |-> "same_shift"]>>

\* the same raw availability value on every business day of n weeks
UniformAvail(n, perActor) ==
    [date \in {wi * 7 + d : wi \in 0..(n - 1), d \in 1..5} |-> perActor]

MkConfig(actors, scenarioActors, slotScenarios, conflicts, actorConstraints) ==
    [actors |-> actors, scenarioActors |-> scenarioActors, slotScenarios |-> slotScenarios,
     conflicts |-> conflicts, actorConstraints |-> actorConstraints,
     defaultDays |-> DefaultDays]

MkInput(n, plans, avail, cfg) ==
    [weeks |-> Calendar(n), weekPlans |-> plans, availability |-> avail, config |-> cfg]

Ratio(pct) == [allowedDays |-> {}, maxPMRatio |-> pct, preferAM |-> FALSE]
OnlyOn(days) == [allowedDays |-> days, maxPMRatio |-> NoRatio, preferAM |-> FALSE]
PreferAM == [allowedDays |-> {}, maxPMRatio |-> NoRatio, preferAM |-> TRUE]

\* Scenarios X and Y on the first training day (Tuesday), every week on its
\* default plan; the approvals, the availability of a and b, the constraint
\* of a and the conflict rule vary.
GridInputs ==
    { MkInput(n, <<>>,
              UniformAvail(n, [a |-> va, b |-> vb, c |-> "true"]),
              MkConfig(<<"a", "b", "c">>, [X |-> ax, Y |-> ay],
                       [slot1 |-> <<"X", "Y">>], cf, [a |-> ca])) :
        n \in 1..MaxWeeks,
        va \in {"true", "am"}, vb \in {"both", "pm", "junk"},
        ax \in {<<>>, <<"a">>, <<"a", "b">>, <<"b", "a", "c">>},
        ay \in {<<"a">>, <<"c", "b">>, <<"a", "b">>},
        cf \in {<<>>, XYRule},
        ca \in {NoConstraint, Ratio(0), [Ratio(50) EXCEPT !.preferAM = TRUE],
                OnlyOn({"Wednesday"})} }

\* week 0 with an explicit plan: day slot 2 canceled, or moved to Friday
Plan0(kind) ==
    IF kind = "default" THEN <<>>
    ELSE IF kind = "cancel2" THEN (0 :> [slot1 |-> 2, slot2 |-> NoDate, slot3 |-> NoDate])
    ELSE (0 :> [slot1 |-> 2, slot2 |-> 5, slot3 |-> NoDate])

\* X on day slot 1 and Y on day slot 2 (two days of the same week), under the
\* conflict rule {X, Y}; plans, approvals, availability and the constraints
\* of a and b vary.
TwoDayInputs ==
    { MkInput(n, Plan0(pk),
              UniformAvail(n, [a |-> "true", b |-> vb, c |-> vc]),
              MkConfig(<<"a", "b", "c">>, [X |-> ax, Y |-> ay],
                       [slot1 |-> <<"X">>, slot2 |-> <<"Y">>], XYRule,
                       [a |-> ca, b |-> cb])) :
        n \in 1..MaxWeeks,
        pk \in {"default", "cancel2", "move2"},
        vb \in {"true", "pm"}, vc \in {"both", "false"},
        ax \in {<<"a">>, <<"a", "b">>},
        ay \in {<<"c", "b">>, <<"b">>, <<"a", "c">>},
        ca \in {NoConstraint, Ratio(50), OnlyOn({"Tuesday"})},
        cb \in {NoConstraint, Ratio(0), PreferAM} }

\* an empty week list
EmptyInputs ==
    { MkInput(0, <<>>, <<>>,
              MkConfig(<<"a">>, [X |-> <<"a">>], [slot1 |-> <<"X">>], <<>>, <<>>)) }

\* Several people who are all approved for X, Y and Z and always available:
\* one week, one active training day, six slots, no rule and no constraint.
PoolInputs ==
    { MkInput(1, (0 :> [slot1 |-> 2, slot2 |-> NoDate, slot3 |-> NoDate]),
              UniformAvail(1, [p \in Range(people) |-> "true"]),
              MkConfig(people, [X |-> people, Y |-> people, Z |-> people],
                       [slot1 |-> <<"X", "Y", "Z">>], <<>>, <<>>)) :
        people \in {<<"a", "b", "c", "d", "e">>, <<"a", "b", "c", "d", "e", "f">>} }

Reverse(seq) == [i \in DOMAIN seq |-> seq[Len(seq) + 1 - i]]

\* Six people approved for X, Y and Z and always available, six slots, no rule
\* and no constraint: the three scenarios on one training day or on three
\* days of the week, the approved list of Y in the same or in reverse order.
SixInputs ==
    LET six == <<"a", "b", "c", "d", "e", "f">> IN
    { MkInput(1, lay.plan,
              UniformAvail(1, [p \in Range(six) |-> av]),
              MkConfig(six, [X |-> six, Y |-> ry, Z |-> six], lay.scen, <<>>, <<>>)) :
        lay \in {[plan |-> (0 :> [slot1 |-> 2, slot2 |-> NoDate, slot3 |-> NoDate]),
                  scen |-> [slot1 |-> <<"X", "Y", "Z">>]],
                 [plan |-> <<>>,
                  scen |-> [slot1 |-> <<"X">>, slot2 |-> <<"Y">>, slot3 |-> <<"Z">>]]},
        ry \in {six, Reverse(six)},
        av \in {"true", "both"} }

\* Five people of its own for each of X, Y and Z, everybody available: one
\* week, one active training day, no rule and no constraint.
DisjointPoolInputs ==
    LET xs == <<"x1", "x2", "x3", "x4", "x5">>
        ys == <<"y1", "y2", "y3", "y4", "y5">>
        zs == <<"z1", "z2", "z3", "z4", "z5">>
    IN  { MkInput(1, (0 :> [slot1 |-> 2, slot2 |-> NoDate, slot3 |-> NoDate]),
                  UniformAvail(1, [p \in Range(xs \o ys \o zs) |-> "true"]),
                  MkConfig(xs \o ys \o zs, [X |-> xs, Y |-> ys, Z |-> zs],
                           [slot1 |-> <<"X", "Y", "Z">>], <<>>, <<>>)) }

Inputs ==
    GridInputs \cup TwoDayInputs \cup EmptyInputs \cup PoolInputs \cup SixInputs
        \cup DisjointPoolInputs

\* The inputs of the termination check: the grid under the conflict rule with
\* a ratio-capped, the two-day inputs with a moved day and both caps, the pool
\* and the empty week list.
FairInputs ==
    {inp \in GridInputs :
        /\ inp.config.conflicts # <<>>
        /\ inp.config.actorConstraints["a"].maxPMRatio = 50}
    \cup {inp \in TwoDayInputs :
        /\ 0 \in DOMAIN inp.weekPlans /\ inp.weekPlans[0]["slot2"] = 5
        /\ inp.config.actorConstraints["a"].maxPMRatio = 50
        /\ inp.config.actorConstraints["b"].maxPMRatio = 0}
    \cup EmptyInputs \cup PoolInputs

----------------------------------------------------------------------------
(* The state machine *)

NoState == [schedule |-> <<>>, wa |-> <<>>, usageCount |-> <<>>, pmCount |-> <<>>,
            backtrackCount |-> 0]

Levels == 0..3

NoAttempts == [k \in Levels |-> [outcome |-> "none", count |-> 0]]

\* an attempt that ended: its level, its outcome, its expansion counter
Record(att, level, outcome, count) ==
    [att EXCEPT ![level] = [outcome |-> outcome, count |-> count]]

\* the locals of a call that has not started
Idle ==
    /\ pc = "start"
    /\ eligibleCount = <<>> /\ allSlots = <<>> /\ skeleton = <<>>
    /\ relaxLevel = 0 /\ state = NoState /\ slots = <<>> /\ idx = 0
    /\ stack = <<>> /\ retval = FALSE /\ fbSlots = <<>> /\ fbIdx = 0 /\ errors = <<>>
    /\ attempts = NoAttempts

\* before the first call, on one of the given inputs
InitOn(inputSet) ==
    /\ \E inp \in inputSet :
        /\ weeks = inp.weeks
        /\ weekPlans = inp.weekPlans
        /\ availability = inp.availability
        /\ config = inp.config
    /\ Idle
    /\ returned = <<>>

Init == InitOn(Inputs)

FairInit == InitOn(FairInputs)

\* scheduler.js:105-153 and the first iteration of the loop of line 270
Generate ==
    /\ pc = "start"
    /\ allSlots' = EnumerateSlots
    /\ skeleton' = BuildSkeleton
    /\ eligibleCount' = ComputeEligibleCount(allSlots')
    /\ relaxLevel' = 0
    /\ state' = freshState(skeleton')
    /\ slots' = allSlots'
    /\ idx' = 0
    /\ attempts' = NoAttempts
    /\ pc' = "enter"
    /\ UNCHANGED <<inputs, stack, retval, fbSlots, fbIdx, errors, returned>>

\* scheduler.js:236  if (idx === slots.length) return true
BtComplete ==
    /\ pc = "enter"
    /\ idx = Len(slots)
    /\ retval' = TRUE
    /\ pc' = "return"
    /\ UNCHANGED <<inputs, eligibleCount, allSlots, skeleton, relaxLevel, state, slots,
                   idx, stack, fbSlots, fbIdx, errors, attempts, returned>>

\* scheduler.js:237  if (++state.backtrackCount > 50000) return false
BtBudget ==
    /\ pc = "enter"
    /\ idx # Len(slots)
    /\ OverBudget(state.backtrackCount + 1)
    /\ state' = [state EXCEPT !.backtrackCount = @ + 1]
    /\ retval' = FALSE
    /\ pc' = "return"
    /\ UNCHANGED <<inputs, eligibleCount, allSlots, skeleton, relaxLevel, slots,
                   idx, stack, fbSlots, fbIdx, errors, attempts, returned>>

\* scheduler.js:239-252 with no candidate: swap, swap back, return false
BtNoCandidates ==
    /\ pc = "enter"
    /\ idx # Len(slots)
    /\ ~OverBudget(state.backtrackCount + 1)
    /\ \E mrvIdx \in {MrvIndex(slots, idx, state, relaxLevel)} :
       LET swapped == Swap(slots, idx + 1, mrvIdx + 1)
       IN  /\ getEligible(swapped[idx + 1], state, relaxLevel) = <<>>
           /\ slots' = Swap(swapped, idx + 1, mrvIdx + 1)
    /\ state' = [state EXCEPT !.backtrackCount = @ + 1]
    /\ retval' = FALSE
    /\ pc' = "return"
    /\ UNCHANGED <<inputs, eligibleCount, allSlots, skeleton, relaxLevel,
                   idx, stack, fbSlots, fbIdx, errors, attempts, returned>>

\* scheduler.js:239-248 with candidates: the invocation enters its candidate loop
BtExpand ==
    /\ pc = "enter"
    /\ idx # Len(slots)
    /\ ~OverBudget(state.backtrackCount + 1)
    /\ \E mrvIdx \in {MrvIndex(slots, idx, state, relaxLevel)} :
       \E slot \in {Swap(slots, idx + 1, mrvIdx + 1)[idx + 1]} :
       \E candidates \in {rankCandidates(getEligible(slot, state, relaxLevel),
                                         slot.shift, state, eligibleCount)} :
           /\ candidates # <<>>
           /\ slots' = Swap(slots, idx + 1, mrvIdx + 1)
           /\ stack' = Append(stack, [idx |-> idx, mrvIdx |-> mrvIdx, slot |-> slot,
                                      candidates |-> candidates, ci |-> 1,
                                      entrySlots |-> slots, entryState |-> state])
    /\ state' = [state EXCEPT !.backtrackCount = @ + 1]
    /\ pc' = "loop"
    /\ UNCHANGED <<inputs, eligibleCount, allSlots, skeleton, relaxLevel,
                   idx, retval, fbSlots, fbIdx, errors, attempts, returned>>

\* scheduler.js:254-255  the next candidate is committed
BtApply ==
    /\ pc = "loop"
    /\ Top.ci <= Len(Top.candidates)
    /\ state' = applyAssign(state, Top.slot, Top.candidates[Top.ci])
    /\ pc' = "check"
    /\ UNCHANGED <<inputs, eligibleCount, allSlots, skeleton, relaxLevel, slots,
                   idx, stack, retval, fbSlots, fbIdx, errors, attempts, returned>>

\* scheduler.js:257-261  forward check passed: backtrack(slots, idx + 1, ...) is called
BtRecurse ==
    /\ pc = "check"
    /\ ForwardOk(slots, Top.idx, state, relaxLevel)
    /\ idx' = Top.idx + 1
    /\ pc' = "enter"
    /\ UNCHANGED <<inputs, eligibleCount, allSlots, skeleton, relaxLevel, state, slots,
                   stack, retval, fbSlots, fbIdx, errors, attempts, returned>>

\* scheduler.js:257-262  forward check failed: the commitment is undone
BtPrune ==
    /\ pc = "check"
    /\ ~ForwardOk(slots, Top.idx, state, relaxLevel)
    /\ state' = undoAssign(state, Top.slot, Top.candidates[Top.ci])
    /\ stack' = [stack EXCEPT ![Len(stack)].ci = @ + 1]
    /\ pc' = "loop"
    /\ UNCHANGED <<inputs, eligibleCount, allSlots, skeleton, relaxLevel, slots,
                   idx, retval, fbSlots, fbIdx, errors, attempts, returned>>

\* scheduler.js:265-266  candidates exhausted: swap back, return false
BtExhausted ==
    /\ pc = "loop"
    /\ Top.ci > Len(Top.candidates)
    /\ slots' = Swap(slots, Top.idx + 1, Top.mrvIdx + 1)
    /\ idx' = Top.idx
    /\ stack' = Pop(stack)
    /\ retval' = FALSE
    /\ pc' = "return"
    /\ UNCHANGED <<inputs, eligibleCount, allSlots, skeleton, relaxLevel, state,
                   fbSlots, fbIdx, errors, attempts, returned>>

\* scheduler.js:261  the recursive call returned true: return true
BtSuccess ==
    /\ pc = "return"
    /\ stack # <<>>
    /\ retval
    /\ idx' = Top.idx
    /\ stack' = Pop(stack)
    /\ UNCHANGED <<inputs, pc, eligibleCount, allSlots, skeleton, relaxLevel, state, slots,
                   retval, fbSlots, fbIdx, errors, attempts, returned>>

\* scheduler.js:261-262  the recursive call returned false: undo, next candidate
BtUndo ==
    /\ pc = "return"
    /\ stack # <<>>
    /\ ~retval
    /\ state' = undoAssign(state, Top.slot, Top.candidates[Top.ci])
    /\ stack' = [stack EXCEPT ![Len(stack)].ci = @ + 1]
    /\ pc' = "loop"
    /\ UNCHANGED <<inputs, eligibleCount, allSlots, skeleton, relaxLevel, slots,
                   idx, retval, fbSlots, fbIdx, errors, attempts, returned>>

----------------------------------------------------------------------------
(* The relaxation loop of scheduler.js:270-275 *)

\* a loop that forgets relaxLevel++ and tries the same level again
NextRelaxLevel_Same(r) == r

\* a loop that steps over a level
NextRelaxLevel_Skip(r) == r + 2

\* relaxLevel++ of the for statement
NextRelaxLevel(r) == r + 1

\* relaxLevel <= 3 of the for statement
LevelInRange(r) == r <= 3

\* the value returned at scheduler.js:273
SuccessResult(st) == [schedule |-> st.schedule, errors |-> <<>>]

\* backtrack(...) returned true to the loop: return {schedule, errors: []}
LevelSuccess ==
    /\ pc = "return"
    /\ stack = <<>>
    /\ retval
    /\ attempts' = Record(attempts, relaxLevel, "ok", state.backtrackCount)
    /\ returned' = Append(returned, SuccessResult(state))
    /\ pc' = "done"
    /\ UNCHANGED <<inputs, eligibleCount, allSlots, skeleton, relaxLevel, state, slots,
                   idx, stack, retval, fbSlots, fbIdx, errors>>

\* backtrack(...) returned false and another level follows: fresh state, fresh copy
LevelFail ==
    /\ pc = "return"
    /\ stack = <<>>
    /\ ~retval
    /\ LevelInRange(NextRelaxLevel(relaxLevel))
    /\ attempts' = Record(attempts, relaxLevel, "failed", state.backtrackCount)
    /\ relaxLevel' = NextRelaxLevel(relaxLevel)
    /\ state' = freshState(skeleton)
    /\ slots' = allSlots
    /\ idx' = 0
    /\ pc' = "enter"
    /\ UNCHANGED <<inputs, eligibleCount, allSlots, skeleton, stack, retval, fbSlots, fbIdx,
                   errors, returned>>

----------------------------------------------------------------------------
(* The greedy fallback of scheduler.js:307-350 *)

\* the last level failed: fbState = freshState(), errors = []
FallbackStart ==
    /\ pc = "return"
    /\ stack = <<>>
    /\ ~retval
    /\ ~LevelInRange(NextRelaxLevel(relaxLevel))
    /\ attempts' = Record(attempts, relaxLevel, "failed", state.backtrackCount)
    /\ relaxLevel' = NextRelaxLevel(relaxLevel)
    /\ state' = freshState(skeleton)
    /\ errors' = <<>>
    /\ fbSlots' = FallbackOrder
    /\ config' = ConfigAfterScenarioSort(config)
    /\ fbIdx' = 1
    /\ pc' = "fallback"
    /\ UNCHANGED <<weeks, weekPlans, availability, eligibleCount, allSlots, skeleton, slots,
                   idx, stack, retval, returned>>

\* a fallback that takes its candidates at the most relaxed level
FallbackCandidates_Relaxed(slot, st) ==
    rankCandidates(getEligible(slot, st, 3), slot.shift, st, eligibleCount)

\* the candidates of the fallback for a slot: strict level only
FallbackCandidates(slot, st) ==
    rankCandidates(getEligible(slot, st, 0), slot.shift, st, eligibleCount)

\* scheduler.js:344  a candidate exists: the best-ranked one is committed
FallbackAssign ==
    /\ pc = "fallback"
    /\ fbIdx <= Len(fbSlots)
    /\ \E candidates \in {FallbackCandidates(fbSlots[fbIdx], state)} :
       /\ candidates # <<>>
       /\ state' = applyAssign(state, fbSlots[fbIdx], candidates[1])
    /\ fbIdx' = fbIdx + 1
    /\ UNCHANGED <<inputs, pc, eligibleCount, allSlots, skeleton, relaxLevel, slots, idx,
                   stack, retval, fbSlots, errors, attempts, returned>>

\* a fallback that skips the slot without pushing a record
PushError_Dropped(errs, slot, st) == errs

\* a fallback that pushes the record of an unfilled slot twice
PushError_Twice(errs, slot, st) == errs \o <<Diagnostic(slot, st), Diagnostic(slot, st)>>

\* the errors list after the push of scheduler.js:333
PushError(errs, slot, st) == Append(errs, Diagnostic(slot, st))

\* scheduler.js:326-343  no candidate: a diagnostic record is pushed, the cell stays null
FallbackUnfilled ==
    /\ pc = "fallback"
    /\ fbIdx <= Len(fbSlots)
    /\ FallbackCandidates(fbSlots[fbIdx], state) = <<>>
    /\ errors' = PushError(errors, fbSlots[fbIdx], state)
    /\ fbIdx' = fbIdx + 1
    /\ UNCHANGED <<inputs, pc, eligibleCount, allSlots, skeleton, relaxLevel, state, slots,
                   idx, stack, retval, fbSlots, attempts, returned>>

\* scheduler.js:350  return {schedule: fbState.schedule, errors}
FallbackReturn ==
    /\ pc = "fallback"
    /\ fbIdx > Len(fbSlots)
    /\ returned' = Append(returned, [schedule |-> state.schedule, errors |-> errors])
    /\ pc' = "done"
    /\ UNCHANGED <<inputs, eligibleCount, allSlots, skeleton, relaxLevel, state, slots,
                   idx, stack, retval, fbSlots, fbIdx, errors, attempts>>

\* The caller invokes generateSchedule again with the same arguments (the
\* function is synchronous: a call starts only when no other call is running).
\* What the finished call left behind is still in memory; the new call
\* initialises its own locals in Generate.
NextCall ==
    /\ pc = "done"
    /\ Len(returned) < MaxCalls
    /\ pc' = "start"
    /\ UNCHANGED <<inputs, eligibleCount, allSlots, skeleton, relaxLevel, state, slots, idx,
                   stack, retval, fbSlots, fbIdx, errors, attempts, returned>>

Next ==
    \/ Generate
    \/ BtComplete
    \/ BtBudget
    \/ BtNoCandidates
    \/ BtExpand
    \/ BtApply
    \/ BtRecurse
    \/ BtPrune
    \/ BtExhausted
    \/ BtSuccess
    \/ BtUndo
    \/ LevelSuccess
    \/ LevelFail
    \/ FallbackStart
    \/ FallbackAssign
    \/ FallbackUnfilled
    \/ FallbackReturn
    \/ NextCall

Spec == Init /\ [][Next]_vars

\* The call is one synchronous JavaScript function: once started it runs each
\* step to the next without waiting for anything.
FairSpec == FairInit /\ [][Next]_vars /\ WF_vars(Next)

----------------------------------------------------------------------------
(* Vocabulary of the properties *)

Done == pc = "done"
LastResult == returned[Len(returned)]

\* the attempt of relaxation level k produced the returned schedule
SucceededAt(k) == attempts[k].outcome = "ok"
\* all four attempts failed: the fallback produces (or produced) the result
AllLevelsFailed == \A k \in Levels : attempts[k].outcome = "failed"
\* some attempt of this call ran into the expansion budget
BudgetHit == \E k \in Levels : OverBudget(attempts[k].count)

\* the slots of the inputs as a set of keys: every week, every day slot whose
\* plan has a date, every shift, every scenario configured on the day slot
SlotKeys ==
    {<<wi, sk, sh, sc>> \in WeekIndexes \X SlotKeySet \X ShiftSet \X DOMAIN config.scenarioActors :
        WeekPlan(wi)[sk] # NoDate /\ sc \in Range(SlotScenarios(sk))}

HasCell(sched, k) ==
    /\ k[1] \in DOMAIN sched
    /\ sched[k[1]][k[2]].date # NoDate
    /\ k[4] \in DOMAIN sched[k[1]][k[2]][k[3]]

CellOf(sched, k) == sched[k[1]][k[2]][k[3]][k[4]]

\* the diagnostic records of a slot key
RecordsOf(errs, k) ==
    {j \in DOMAIN errs : /\ errs[j].weekKey = k[1] /\ errs[j].slotKey = k[2]
                         /\ errs[j].shift = k[3] /\ errs[j].scenario = k[4]}

\* the scenarios a person holds in one week and shift of a schedule, with their day slots
Held(sched, wi, sh, actor) ==
    {<<sk, sc>> \in SlotKeySet \X DOMAIN config.scenarioActors :
        HasCell(sched, <<wi, sk, sh, sc>>) /\ CellOf(sched, <<wi, sk, sh, sc>>) = actor}

Searching == pc \in {"enter", "loop", "check", "return"}

----------------------------------------------------------------------------
(* C1: completeness or explanation *)

\* C1: in the value a call returns, every enumerated slot has a cell of the
\* schedule; a null cell has exactly one diagnostic record with its weekKey,
\* slotKey, shift and scenario, and a filled cell has none.
C1_CompleteOrExplained ==
    Done =>
        \A k \in SlotKeys :
            /\ HasCell(LastResult.schedule, k)
            /\ Cardinality(RecordsOf(LastResult.errors, k))
                 = (IF CellOf(LastResult.schedule, k) = Null THEN 1 ELSE 0)

\* a returned fallback result with a filled slot and an unfilled one
C1_Witness ==
    /\ Done
    /\ \E k1, k2 \in SlotKeys :
        /\ CellOf(LastResult.schedule, k1) = Null
        /\ CellOf(LastResult.schedule, k2) # Null
        /\ LastResult.errors # <<>>

----------------------------------------------------------------------------
(* C2: no double booking *)

\* C2: in every state of every attempt and of the fallback, and in every
\* returned schedule, a person holds at most one scenario per week and shift,
\* across all training days of the week.
C2_NoDoubleBooking ==
    /\ \A wi \in DOMAIN state.wa : \A sh \in ShiftSet : \A a \in ActorSet :
          /\ Cardinality(state.wa[wi][sh][a]) <= 1
          /\ Cardinality(Held(state.schedule, wi, sh, a)) <= 1
    /\ \A r \in DOMAIN returned : \A wi \in WeekIndexes : \A sh \in ShiftSet : \A a \in ActorSet :
          Cardinality(Held(returned[r].schedule, wi, sh, a)) <= 1

\* a state of the level-3 attempt in which a person who holds a scenario is
\* approved and available for another, still empty slot of the same week and shift
C2_Witness ==
    /\ Searching /\ relaxLevel = 3
    /\ \E i \in DOMAIN slots : \E a \in ActorSet :
        /\ state.wa[slots[i].wi][slots[i].shift][a] # {}
        /\ CellOf(state.schedule, <<slots[i].wi, slots[i].slotKey, slots[i].shift,
                                    slots[i].scenario>>) = Null
        /\ a \in Range(Approved(slots[i].scenario))
        /\ isAvailableForShift(DayAvail(slots[i].date, a), slots[i].shift)

----------------------------------------------------------------------------
(* C4: conflict rules in a full schedule *)

\* a person holds both scenarios of a same-shift rule in one week and shift
BreaksConflict(sched) ==
    \E r \in DOMAIN config.conflicts : \E wi \in WeekIndexes : \E sh \in ShiftSet :
    \E a \in ActorSet : \E h1, h2 \in Held(sched, wi, sh, a) :
        /\ config.conflicts[r].scope = "same_shift"
        /\ h1[2] # h2[2]
        /\ {h1[2], h2[2]} \subseteq Range(config.conflicts[r].actor_cannot_play)

\* C4: a schedule returned with an empty errors list has no person holding
\* both scenarios of a same-shift conflict rule in one week and shift.
C4_ConflictRespected ==
    (Done /\ LastResult.errors = <<>>) => ~BreaksConflict(LastResult.schedule)

\* a full schedule under a rule {X, Y} with a person approved and available for both
C4_Witness ==
    /\ Done /\ LastResult.errors = <<>>
    /\ config.conflicts # <<>>
    /\ \E k1, k2 \in SlotKeys : \E a \in ActorSet :
        /\ k1[1] = k2[1] /\ k1[3] = k2[3] /\ k1[4] = "X" /\ k2[4] = "Y"
        /\ a \in Range(Approved("X")) \cap Range(Approved("Y"))
        /\ isAvailableForShift(DayAvail(WeekPlan(k1[1])[k1[2]], a), k1[3])
        /\ isAvailableForShift(DayAvail(WeekPlan(k2[1])[k2[2]], a), k2[3])
        /\ CellOf(LastResult.schedule, k1) = a

----------------------------------------------------------------------------
(* C5: a person whose maxPMRatio is 0 *)

\* a person with maxPMRatio = 0 holds a PM cell of the schedule
RatioZeroInPM(sched) ==
    \E k \in SlotKeys :
        /\ k[3] = "PM"
        /\ HasCell(sched, k)
        /\ CellOf(sched, k) # Null
        /\ Constraint(CellOf(sched, k)).maxPMRatio = 0

\* C5 as stated: whatever produced the returned schedule, a person whose
\* maxPMRatio is 0 holds no PM cell of it.
C5_NeverEvening ==
    Done => ~RatioZeroInPM(LastResult.schedule)

\* C5 amended: a person whose maxPMRatio is 0 holds no PM cell in any state of
\* the level-0 attempt or of the greedy fallback, nor in a schedule that the
\* level-0 attempt or the fallback returns.  (Levels 1 to 3 ignore the cap.)
C5_NeverEveningWhenStrict ==
    /\ ((Searching /\ relaxLevel = 0) \/ pc = "fallback") => ~RatioZeroInPM(state.schedule)
    /\ (Done /\ (SucceededAt(0) \/ AllLevelsFailed)) => ~RatioZeroInPM(LastResult.schedule)

\* a schedule returned by level 0 or by the fallback although a person with
\* maxPMRatio = 0 is approved and available for one of its PM slots
C5_Witness ==
    /\ Done /\ (SucceededAt(0) \/ AllLevelsFailed)
    /\ \E k \in SlotKeys : \E a \in ActorSet :
        /\ k[3] = "PM"
        /\ Constraint(a).maxPMRatio = 0
        /\ a \in Range(Approved(k[4]))
        /\ isAvailableForShift(DayAvail(WeekPlan(k[1])[k[2]], a), "PM")
        /\ CellOf(LastResult.schedule, k) # Null

----------------------------------------------------------------------------
(* C3: monotonic escalation *)

\* a person with a day restriction holds a cell on a day outside it
BreaksAllowedDays(sched) ==
    \E k \in SlotKeys :
        /\ HasCell(sched, k)
        /\ CellOf(sched, k) # Null
        /\ Constraint(CellOf(sched, k)).allowedDays # {}
        /\ DayName(WeekPlan(k[1])[k[2]]) \notin Constraint(CellOf(sched, k)).allowedDays

\* the schedule breaks a constraint that is relaxed only above level k
BreaksRelaxedAbove(k, sched) ==
    \/ k < 1 /\ RatioZeroInPM(sched)
    \/ k < 2 /\ BreaksAllowedDays(sched)
    \/ k < 3 /\ BreaksConflict(sched)

\* the enumerated slots, morning slots first
IsMorning(slot) == slot.shift = "AM"
IsEvening(slot) == slot.shift = "PM"
MorningFirst == SelectSeq(EnumerateSlots, IsMorning) \o SelectSeq(EnumerateSlots, IsEvening)

RECURSIVE FilterAccepts(_, _, _, _)
\* the slots order[i..] can all be assigned one after the other, each
\* assignment accepted by getEligible at level k in the state it is made in
FilterAccepts(order, i, st, k) ==
    \/ i > Len(order)
    \/ \E a \in Range(getEligible(order[i], st, k)) :
          FilterAccepts(order, i + 1, applyAssign(st, order[i], a), k)

\* a complete assignment exists that the filter accepts at level k
\* (a sufficient test: the assignments made morning slots first)
SolvableAt(k) == FilterAccepts(MorningFirst, 1, freshState(BuildSkeleton), k)

\* C3 as stated: when a complete assignment accepted at level k exists, the
\* returned schedule breaks no constraint relaxed only above level k
\* (calls that ran out of the backtrack budget are left aside).
C3_MonotonicEscalation ==
    (Done /\ ~BudgetHit) =>
        \A k \in Levels : SolvableAt(k) => ~BreaksRelaxedAbove(k, LastResult.schedule)

----------------------------------------------------------------------------
(* C6: a scenario without approved people *)

\* C6 as stated: every slot of a scenario whose approved list is empty is
\* returned unfilled, with a diagnostic record that says that the scenario has
\* no approved actors.
C6_NoApprovedActorsReported ==
    Done => \A k \in SlotKeys :
        Approved(k[4]) = <<>> =>
            /\ CellOf(LastResult.schedule, k) = Null
            /\ \E j \in RecordsOf(LastResult.errors, k) :
                  LastResult.errors[j].suggestion.kind = "No approved actors"

----------------------------------------------------------------------------
(* C7: one person for two scenarios of a week and shift *)

\* a same-shift conflict rule names both scenarios
InRule(x, y) ==
    /\ x # y
    /\ \E i \in DOMAIN config.conflicts :
          /\ config.conflicts[i].scope = "same_shift"
          /\ {x, y} \subseteq Range(config.conflicts[i].actor_cannot_play)

\* person is the only one approved for the slot's scenario and available for its day and shift
SoleCandidate(person, k) ==
    {a \in Range(Approved(k[4])) :
        isAvailableForShift(DayAvail(WeekPlan(k[1])[k[2]], a), k[3])} = {person}

\* the reasons the records of slot k give for a person
ReasonsFor(errs, k, person) ==
    {errs[j].eliminations[i].reason :
        <<j, i>> \in {<<j, i>> \in RecordsOf(errs, k) \X (1..Len(config.actors)) :
                        /\ i \in DOMAIN errs[j].eliminations
                        /\ errs[j].eliminations[i].actor = person}}

\* the position of slot k in the order the fallback visits the slots
FallbackPosition(k) ==
    CHOOSE i \in DOMAIN fbSlots :
        /\ fbSlots[i].wi = k[1] /\ fbSlots[i].slotKey = k[2]
        /\ fbSlots[i].shift = k[3] /\ fbSlots[i].scenario = k[4]

\* X holds P, and P is the only candidate for Y in the same week and shift
OneForTwo(sched, kx, ky, person) ==
    /\ kx # ky /\ kx[1] = ky[1] /\ kx[3] = ky[3]
    /\ CellOf(sched, kx) = person
    /\ SoleCandidate(person, ky)

\* C7 as stated: with a conflict rule {X, Y}, X filled with P and P the only
\* candidate for Y in that week and shift, Y is unfilled and its record gives
\* P the conflict-rule reason.
C7_ConflictReason ==
    Done => \A kx, ky \in SlotKeys : \A person \in ActorSet :
        (InRule(kx[4], ky[4]) /\ OneForTwo(LastResult.schedule, kx, ky, person)) =>
            /\ CellOf(LastResult.schedule, ky) = Null
            /\ ReasonsFor(LastResult.errors, ky, person) = {"Conflict rule"}

\* C7 amended: when X is filled with P and P is the only candidate for Y in
\* the same week and shift, Y is unfilled; if the fallback visited X before Y
\* the record of Y gives P the reason "Already used in <shift>", and no record
\* of any result gives anyone the conflict-rule reason.
C7_AlreadyUsedReason ==
    Done =>
        /\ \A kx, ky \in SlotKeys : \A person \in ActorSet :
              OneForTwo(LastResult.schedule, kx, ky, person) =>
                  /\ CellOf(LastResult.schedule, ky) = Null
                  /\ FallbackPosition(kx) < FallbackPosition(ky) =>
                        ReasonsFor(LastResult.errors, ky, person) = {"Already used"}
        /\ \A j \in DOMAIN LastResult.errors :
              \A i \in DOMAIN LastResult.errors[j].eliminations :
                  LastResult.errors[j].eliminations[i].reason # "Conflict rule"

\* a rule {X, Y}, with X filled with P before the fallback
\* came to Y, for which P is the only candidate
C7_Witness ==
    /\ Done
    /\ \E kx, ky \in SlotKeys : \E person \in ActorSet :
          /\ InRule(kx[4], ky[4])
          /\ SoleCandidate(person, kx)
          /\ OneForTwo(LastResult.schedule, kx, ky, person)
          /\ FallbackPosition(kx) < FallbackPosition(ky)

----------------------------------------------------------------------------
(* C8: determinism *)

----------------------------------------------------------------------------
(* C9: termination *)

\* C9: every call that starts comes to its return, with a value that has a
\* schedule and an errors list; no attempt and no fallback runs forever or
\* stops before the return.
C9_Terminates ==
    (pc = "start") ~> (Done /\ DOMAIN LastResult = {"schedule", "errors"})

\* a call on an infeasible input (a scenario nobody is approved for) has
\* gone through the four attempts and the fallback and has returned
C9_Witness ==
    /\ Done
    /\ AllLevelsFailed
    /\ \E k \in SlotKeys : Approved(k[4]) = <<>>
    /\ LastResult.errors # <<>>

----------------------------------------------------------------------------
(* C10: the order of the attempts *)

\* nothing is assigned and every counter is zero
IsFresh(st) ==
    /\ \A k \in SlotKeys : HasCell(st.schedule, k) /\ CellOf(st.schedule, k) = Null
    /\ \A a \in ActorSet : st.usageCount[a] = 0 /\ st.pmCount[a] = 0
    /\ \A wi \in DOMAIN st.wa : \A sh \in ShiftSet : \A a \in ActorSet : st.wa[wi][sh][a] = {}
    /\ st.backtrackCount = 0

\* levels below k have failed, levels from k on have not been tried
TriedBelow(k) ==
    \A j \in Levels : attempts[j].outcome = (IF j < k THEN "failed" ELSE "none")

\* C10: while level k is searched, exactly the levels below k have been tried,
\* and all of them failed; each level starts on the full slot list with a fresh
\* state; a level that assigns every slot is returned with no errors and no
\* later level is tried; the fallback runs, from a fresh state, only after
\* levels 0, 1, 2 and 3 have all failed.
C10_LevelOrder ==
    /\ Searching => relaxLevel \in Levels /\ TriedBelow(relaxLevel)
    /\ (pc = "enter" /\ stack = <<>> /\ idx = 0) => IsFresh(state) /\ slots = allSlots
    /\ pc = "fallback" => AllLevelsFailed
    /\ (pc = "fallback" /\ fbIdx = 1) => IsFresh(state) /\ errors = <<>>
    /\ Done => \/ /\ AllLevelsFailed
                  /\ \E k \in SlotKeys : CellOf(LastResult.schedule, k) = Null
               \/ \E k \in Levels :
                    /\ SucceededAt(k)
                    /\ \A j \in Levels : j < k => attempts[j].outcome = "failed"
                    /\ \A j \in Levels : j > k => attempts[j].outcome = "none"
                    /\ LastResult.errors = <<>>
                    /\ \A c \in SlotKeys : CellOf(LastResult.schedule, c) # Null

\* a call returned by level 2 after levels 0 and 1 failed
C10_Witness ==
    /\ Done
    /\ SucceededAt(2)
    /\ attempts[0].outcome = "failed" /\ attempts[1].outcome = "failed"
    /\ \E k \in SlotKeys : CellOf(LastResult.schedule, k) # Null

----------------------------------------------------------------------------
(* C11: approved and available *)

\* every filled cell of the schedule holds a person who is approved for the
\* cell's scenario and available for the cell's shift on the cell's date
ApprovedAndAvailable(sched) ==
    \A k \in SlotKeys :
        (HasCell(sched, k) /\ CellOf(sched, k) # Null) =>
            /\ CellOf(sched, k) \in Range(Approved(k[4]))
            /\ isAvailableForShift(DayAvail(WeekPlan(k[1])[k[2]], CellOf(sched, k)), k[3])

\* C11: every person in a schedule under construction (levels 0..3 and the
\* fallback) and in every returned schedule is approved for the scenario of
\* the cell and available for its shift on its date.
C11_ApprovedAndAvailable ==
    /\ (Searching \/ pc = "fallback") => ApprovedAndAvailable(state.schedule)
    /\ \A i \in DOMAIN returned : ApprovedAndAvailable(returned[i].schedule)

\* a schedule returned by a relaxed level with a filled cell for which
\* somebody approved is not available in that shift
C11_Witness ==
    /\ Done
    /\ SucceededAt(1) \/ SucceededAt(2)
    /\ \E k \in SlotKeys : \E a \in Range(Approved(k[4])) :
          /\ CellOf(LastResult.schedule, k) # Null
          /\ ~isAvailableForShift(DayAvail(WeekPlan(k[1])[k[2]], a), k[3])

----------------------------------------------------------------------------
(* C12: day restrictions below level 2 *)

\* C12: in every state of the level-0 and level-1 attempts and of the
\* fallback, and in every schedule that level 0, level 1 or the fallback
\* returns, a person with a non-empty allowedDays holds cells only on dates
\* whose weekday is in it.
C12_AllowedDaysHonoured ==
    /\ ((Searching /\ relaxLevel < 2) \/ pc = "fallback") => ~BreaksAllowedDays(state.schedule)
    /\ (Done /\ (SucceededAt(0) \/ SucceededAt(1) \/ AllLevelsFailed)) =>
            ~BreaksAllowedDays(LastResult.schedule)

\* level 0, level 1 or the fallback returned a schedule with a filled cell
\* for which an approved and available person is barred by the weekday
C12_Witness ==
    /\ Done
    /\ SucceededAt(0) \/ SucceededAt(1) \/ AllLevelsFailed
    /\ \E k \in SlotKeys : \E a \in Range(Approved(k[4])) :
          /\ CellOf(LastResult.schedule, k) # Null
          /\ isAvailableForShift(DayAvail(WeekPlan(k[1])[k[2]], a), k[3])
          /\ Constraint(a).allowedDays # {}
          /\ DayName(WeekPlan(k[1])[k[2]]) \notin Constraint(a).allowedDays

----------------------------------------------------------------------------
(* C13: errors and null cells *)

\* the unfilled cells of a schedule
NullCells(sched) == {k \in SlotKeys : HasCell(sched, k) /\ CellOf(sched, k) = Null}

\* C13: in a returned value errors is empty exactly when the schedule has no
\* null cell; a schedule returned by a backtracking attempt has no null cell
\* and no error; errors has as many records as the schedule has null cells.
C13_ErrorsIffNullCells ==
    Done =>
        /\ (LastResult.errors = <<>>) <=> (NullCells(LastResult.schedule) = {})
        /\ (\E k \in Levels : SucceededAt(k)) =>
              LastResult.errors = <<>> /\ NullCells(LastResult.schedule) = {}
        /\ Len(LastResult.errors) = Cardinality(NullCells(LastResult.schedule))

\* a fallback result with several unfilled cells next to filled ones
C13_Witness ==
    /\ Done
    /\ AllLevelsFailed
    /\ Len(LastResult.errors) >= 2
    /\ \E k \in SlotKeys : CellOf(LastResult.schedule, k) # Null

----------------------------------------------------------------------------
(* C14: fairness among identically eligible people *)

\* the number of cells a person holds
Usage(sched, actor) ==
    Cardinality({k \in SlotKeys : HasCell(sched, k) /\ CellOf(sched, k) = actor})

\* nobody has a constraint and there is no conflict rule
Unconstrained ==
    /\ config.conflicts = <<>>
    /\ \A a \in ActorSet :
          /\ Constraint(a).allowedDays = {}
          /\ Constraint(a).maxPMRatio = NoRatio
          /\ ~Constraint(a).preferAM

\* everybody on the actors list is approved for the scenario of every slot
\* and available for its shift on its date
AllEligibleEverywhere ==
    \A k \in SlotKeys :
        /\ Range(Approved(k[4])) = ActorSet
        /\ \A a \in ActorSet : isAvailableForShift(DayAvail(WeekPlan(k[1])[k[2]], a), k[3])

\* six people, six slots, all identically eligible
SixForSix ==
    /\ Cardinality(ActorSet) = 6
    /\ Cardinality(SlotKeys) = 6
    /\ Unconstrained
    /\ AllEligibleEverywhere

\* C14: with six identically eligible people, six slots and no constraint,
\* the returned schedule is complete, without errors, and the usage counts of
\* any two people differ by at most 1.
C14_FairnessBound ==
    (Done /\ SixForSix) =>
        /\ LastResult.errors = <<>>
        /\ \A k \in SlotKeys : CellOf(LastResult.schedule, k) # Null
        /\ \A a, b \in ActorSet :
              Usage(LastResult.schedule, a) - Usage(LastResult.schedule, b) <= 1

\* a call on six-for-six inputs with the scenarios on three days has returned
C14_Witness ==
    /\ Done
    /\ SixForSix
    /\ Cardinality({k[2] : k \in SlotKeys}) = 3
    /\ \A a \in ActorSet : Usage(LastResult.schedule, a) = 1

----------------------------------------------------------------------------
(* C15: Scenario A *)

\* the day slots of week 0 that have a date
ActiveDays == {sk \in SlotKeySet : WeekPlan(0)[sk] # NoDate}

\* the people approved for some scenario of some slot
ApprovedPeople == UNION {Range(Approved(k[4])) : k \in SlotKeys}

\* the people placed in a schedule
Placed(sched) ==
    {CellOf(sched, k) : k \in {kk \in SlotKeys : HasCell(sched, kk)}} \ {Null}

\* one week, one active training day with scenarios [X, Y, Z], five approved
\* and available people for each scenario, no conflict rule, no constraint
ScenarioA ==
    /\ Len(weeks) = 1
    /\ Unconstrained
    /\ \E sk \in SlotKeySet :
          /\ ActiveDays = {sk}
          /\ SlotScenarios(sk) = <<"X", "Y", "Z">>
          /\ \A sc \in {"X", "Y", "Z"} :
                /\ Len(Approved(sc)) = 5
                /\ Cardinality(Range(Approved(sc))) = 5
                /\ \A a \in Range(Approved(sc)), sh \in ShiftSet :
                      isAvailableForShift(DayAvail(WeekPlan(0)[sk], a), sh)

\* the schedule is full and without errors
FullSchedule(res) ==
    /\ res.errors = <<>>
    /\ \A k \in SlotKeys : HasCell(res.schedule, k) /\ CellOf(res.schedule, k) # Null

\* Scenario A as stated: full schedule, errors = [], the six cells hold six
\* different people
C15_ScenarioA_AllDistinct ==
    (Done /\ ScenarioA) =>
        /\ FullSchedule(LastResult)
        /\ Cardinality(Placed(LastResult.schedule)) = Cardinality(SlotKeys)

\* C15: in Scenario A the returned schedule is full with errors = [] and the
\* three cells of each shift hold three different people; the six cells hold
\* six different people when the three approved lists are pairwise disjoint,
\* and five different people when the three lists hold the same five people.
C15_ScenarioA ==
    (Done /\ ScenarioA) =>
        /\ FullSchedule(LastResult)
        /\ \A k1, k2 \in SlotKeys :
              (k1 # k2 /\ k1[3] = k2[3]) =>
                  CellOf(LastResult.schedule, k1) # CellOf(LastResult.schedule, k2)
        /\ (\A s1, s2 \in {"X", "Y", "Z"} :
                s1 # s2 => Range(Approved(s1)) \cap Range(Approved(s2)) = {})
              => Cardinality(Placed(LastResult.schedule)) = 6
        /\ Cardinality(ApprovedPeople) = 5
              => Cardinality(Placed(LastResult.schedule)) = 5

\* Scenario A with the same five people on the three lists has returned, and
\* one person fills a morning and an evening cell
C15_Witness ==
    /\ Done
    /\ ScenarioA
    /\ Cardinality(ApprovedPeople) = 5
    /\ \E a \in ActorSet : Usage(LastResult.schedule, a) = 2

----------------------------------------------------------------------------
(* C16: the arguments are left as they were *)

----------------------------------------------------------------------------
(* C17: the shape of the returned schedule *)

\* the position of a day slot is null (scheduler.js:144, 162)
IsNullPosition(sched, wi, sk) ==
    /\ sched[wi][sk].date = NoDate
    /\ sched[wi][sk].AM = <<>>
    /\ sched[wi][sk].PM = <<>>

\* the week plan has no date for the day slot: the day is canceled
Canceled(wi, sk) == WeekPlan(wi)[sk] = NoDate

\* a schedule has the shape the week plans and slotScenarios prescribe
ShapedByPlans(sched) ==
    /\ DOMAIN sched = WeekIndexes
    /\ \A wi \in WeekIndexes, sk \in SlotKeySet :
          /\ IsNullPosition(sched, wi, sk) <=> Canceled(wi, sk)
          /\ sched[wi][sk].date = NoDate <=> Canceled(wi, sk)
          /\ ~Canceled(wi, sk) =>
                /\ sched[wi][sk].date = WeekPlan(wi)[sk]
                /\ \A sh \in ShiftSet :
                      DOMAIN sched[wi][sk][sh] = Range(SlotScenarios(sk))

\* no slot of a list lies on a canceled day
NoSlotOnCanceledDay(slotList) ==
    \A i \in DOMAIN slotList :
        /\ ~Canceled(slotList[i].wi, slotList[i].slotKey)
        /\ slotList[i].date = WeekPlan(slotList[i].wi)[slotList[i].slotKey]

\* C17: in the returned schedule a position is null exactly when the week
\* plan (explicit, else the weekday-name default) has no date for the day
\* slot; a dated position holds the plan's date and, for each shift, one cell
\* for each scenario configured on the day slot. A canceled day has no slot
\* in the slot lists, no assignment and no diagnostic record, whether the
\* search or the fallback produced the result.
C17_SkeletonShape ==
    /\ Done =>
          /\ ShapedByPlans(LastResult.schedule)
          /\ \A j \in DOMAIN LastResult.errors :
                ~Canceled(LastResult.errors[j].weekKey, LastResult.errors[j].slotKey)
    /\ pc # "start" =>
          /\ NoSlotOnCanceledDay(allSlots)
          /\ NoSlotOnCanceledDay(slots)
          /\ NoSlotOnCanceledDay(fbSlots)
          /\ ShapedByPlans(state.schedule)

\* the fallback has returned for a week with a canceled day, a dated day with
\* cells and at least one diagnostic record
C17_Witness ==
    /\ Done
    /\ AllLevelsFailed
    /\ LastResult.errors # <<>>
    /\ \E wi \in WeekIndexes, sk \in SlotKeySet :
          Canceled(wi, sk) /\ SlotScenarios(sk) # <<>>
    /\ \E k \in SlotKeys : CellOf(LastResult.schedule, k) # Null

----------------------------------------------------------------------------
(* C18: the constraint filter, level by level *)

\* the person would hold two scenarios of a same-shift rule in the week and shift
ViolatesConflictRule(actor, slot, st) ==
    \E other \in st.wa[slot.wi][slot.shift][actor] : InRule(slot.scenario, other)

\* the evening share of the person has reached the cap
AtEveningCap(actor, st) ==
    /\ st.usageCount[actor] > 0
    /\ st.pmCount[actor] * 100 >= Constraint(actor).maxPMRatio * st.usageCount[actor]

\* the conditions of the filter for one person, at relaxation level r
PassesFilter(actor, slot, st, r) ==
    /\ isAvailableForShift(DayAvail(slot.date, actor), slot.shift)
    /\ st.wa[slot.wi][slot.shift][actor] = {}
    /\ r < 3 => ~ViolatesConflictRule(actor, slot, st)
    /\ (r < 2 /\ Constraint(actor).allowedDays # {}) =>
          DayName(slot.date) \in Constraint(actor).allowedDays
    /\ (r < 1 /\ slot.shift = "PM" /\ Constraint(actor).maxPMRatio # NoRatio) =>
          /\ Constraint(actor).maxPMRatio # 0
          /\ ~AtEveningCap(actor, st)

\* a search state exists: an attempt or the fallback is running or has ended
HasState == pc \in {"enter", "loop", "check", "return", "fallback", "done"}

\* C18: for every slot, every search state and every level r in 0..3,
\* getEligible returns, in the order of the approved list, exactly the
\* approved people of the slot's scenario who are available for the shift on
\* the date, hold no scenario in the week and shift, and: for r < 3 break no
\* conflict rule; for r < 2, when their allowedDays is not empty, have the
\* slot's weekday in it; for r < 1 on a PM slot, when their maxPMRatio is set,
\* have a ratio other than 0 and have not reached it.
C18_FilterCharacterised ==
    HasState =>
        \A i \in DOMAIN allSlots : \A r \in Levels :
            getEligible(allSlots[i], state, r) =
                SelectSeq(Approved(allSlots[i].scenario),
                          LAMBDA actor : PassesFilter(actor, allSlots[i], state, r))

\* a search state with a person placed, in which the evening cap removes
\* somebody at level 0, the allowed days remove somebody below level 2, and
\* the filter keeps two people in the order of the approved list
C18_Witness ==
    /\ Searching
    /\ \E a \in ActorSet : state.usageCount[a] > 0
    /\ \E i, j, k \in DOMAIN allSlots :
          /\ Len(getEligible(allSlots[i], state, 0)) < Len(getEligible(allSlots[i], state, 1))
          /\ Len(getEligible(allSlots[j], state, 1)) < Len(getEligible(allSlots[j], state, 2))
          /\ Len(getEligible(allSlots[k], state, 0)) >= 2

----------------------------------------------------------------------------
(* C19: the expansion budget *)

\* backtrack is entered at a position before the end of the slot list
EntersBeforeEnd == pc = "enter" /\ idx # Len(slots)

\* the step stays inside the running attempt
SameAttempt == Searching /\ pc' \in {"enter", "loop", "check", "return"} /\ relaxLevel' = relaxLevel

\* C19: within an attempt the expansion counter goes up by one on every entry
\* of backtrack before the end of the slot list and on no other step; once
\* it exceeds the budget the invocation returns failure at once, no success
\* is reported afterwards and the attempt is recorded as failed; the next
\* level (and the fallback) starts at 0.
C19_Budget ==
    [][/\ (EntersBeforeEnd /\ SameAttempt) =>
              state'.backtrackCount = state.backtrackCount + 1
       /\ (~EntersBeforeEnd /\ SameAttempt) =>
              state'.backtrackCount = state.backtrackCount
       /\ (EntersBeforeEnd /\ state.backtrackCount + 1 > BacktrackBudget) =>
              pc' = "return" /\ ~retval' /\ stack' = stack /\ slots' = slots
       /\ (Searching /\ state.backtrackCount > BacktrackBudget) =>
              /\ ~(pc' = "return" /\ retval')
              /\ pc' # "done"
              /\ \A k \in Levels :
                    attempts'[k].outcome = "ok" => attempts'[k].count <= BacktrackBudget
       /\ (Searching /\ relaxLevel' # relaxLevel) => state'.backtrackCount = 0
      ]_vars

\* an attempt ran over the budget and failed, and the attempt of the next
\* level has started with the counter at 0
C19_Witness ==
    /\ pc = "enter"
    /\ relaxLevel \in 1..3
    /\ state.backtrackCount = 0
    /\ attempts[relaxLevel - 1].count > BacktrackBudget
    /\ attempts[relaxLevel - 1].outcome = "failed"

----------------------------------------------------------------------------
(* C20: a failed invocation leaves slot list and state as it found them *)

\* two states agree on schedule, weekShiftUsage, usageCount and pmCount
SameButCount(s, t) ==
    /\ s.schedule = t.schedule
    /\ s.wa = t.wa
    /\ s.usageCount = t.usageCount
    /\ s.pmCount = t.pmCount

----------------------------------------------------------------------------
(* C21: forward checking *)

\* a slot after the position of the running invocation has nobody eligible
LaterSlotStarved ==
    \E i \in (Top.idx + 2) .. Len(slots) : getEligible(slots[i], state, relaxLevel) = <<>>

\* the cell of the slot of the running invocation
TopCell(st) == st.schedule[Top.slot.wi][Top.slot.slotKey][Top.slot.shift][Top.slot.scenario]

\* C21: after a candidate is committed to the slot at position idx, if some
\* slot after idx has no eligible candidate under the new state and the
\* current level, the commitment is undone and the invocation goes on with
\* its next candidate, without a call for position idx + 1; otherwise (every
\* later slot has a candidate) backtrack is called for idx + 1 with the
\* commitment in place.
C21_ForwardCheck ==
    [][pc = "check" =>
          /\ TopCell(state) = Top.candidates[Top.ci]
          /\ LaterSlotStarved =>
                /\ pc' = "loop"
                /\ TopCell(state') = Null
                /\ SameButCount(state', Top.entryState)
                /\ state'.backtrackCount = state.backtrackCount
                /\ Len(stack') = Len(stack)
                /\ stack'[Len(stack')].ci = Top.ci + 1
          /\ ~LaterSlotStarved =>
                /\ pc' = "enter"
                /\ idx' = Top.idx + 1
                /\ state' = state
                /\ stack' = stack
      ]_vars

\* a commitment at a position with an invocation above it leaves a later
\* slot without candidates
C21_Witness ==
    /\ pc = "check"
    /\ Len(stack) >= 2
    /\ LaterSlotStarved
    /\ Top.idx + 2 < Len(slots)

----------------------------------------------------------------------------
(* C22: MRV ordering *)

\* the number of eligible candidates of the slot at (1-based) position i
Remaining(i) == Len(getEligible(slots[i], state, relaxLevel))

\* position m of idx+1..end holds the least count, and no earlier position does
EarliestMinimum(m) ==
    /\ m \in (idx + 1) .. Len(slots)
    /\ \A i \in (idx + 1) .. Len(slots) : Remaining(m) <= Remaining(i)
    /\ \A i \in (idx + 1) .. (m - 1) : Remaining(m) < Remaining(i)

\* list t is list s with the entries at positions i and m exchanged
ExchangedAt(t, s, i, m) ==
    /\ Len(t) = Len(s)
    /\ t[i] = s[m]
    /\ t[m] = s[i]
    /\ \A j \in DOMAIN s \ {i, m} : t[j] = s[j]

\* C22: the slot an invocation at position idx works on is, among the slots
\* at idx..end, the earliest one with the least number of eligible candidates
\* under the current state and level; it is exchanged with the slot at idx
\* and every other slot stays where it is. When that least number is 0 the
\* invocation fails and the list is as before.
C22_MrvOrdering ==
    [][/\ (pc = "enter" /\ pc' = "loop") =>
            \E m \in (idx + 1) .. Len(slots) :
                /\ EarliestMinimum(m)
                /\ Remaining(m) > 0
                /\ ExchangedAt(slots', slots, idx + 1, m)
                /\ stack'[Len(stack')].slot = slots[m]
                /\ stack'[Len(stack')].slot = slots'[idx + 1]
                /\ stack'[Len(stack')].mrvIdx = m - 1
       /\ (pc = "enter" /\ pc' = "return" /\ ~retval'
             /\ state.backtrackCount + 1 <= BacktrackBudget) =>
            /\ \E m \in (idx + 1) .. Len(slots) : EarliestMinimum(m) /\ Remaining(m) = 0
            /\ slots' = slots
      ]_vars

\* the count a slot had when the running invocation was entered
CountAtEntry(i) == Len(getEligible(Top.entrySlots[i], Top.entryState, relaxLevel))

\* an invocation works on a slot that MRV fetched from a later position, past
\* a slot with a greater count, while a slot further on had the same count
C22_Witness ==
    /\ pc = "loop"
    /\ Top.mrvIdx > Top.idx
    /\ CountAtEntry(Top.idx + 1) > CountAtEntry(Top.mrvIdx + 1)
    /\ \E j \in (Top.mrvIdx + 2) .. Len(slots) : CountAtEntry(j) = CountAtEntry(Top.mrvIdx + 1)

----------------------------------------------------------------------------
(* C23: the candidate ranker *)

\* the three sort keys of a person for a slot of the given shift
RankKey(actor, shift) ==
    <<state.usageCount[actor],
      IF shift = "PM" /\ Constraint(actor).preferAM THEN 1 ELSE 0,
      eligibleCount[actor]>>

\* key k comes before key l in the order of the three keys
KeyBefore(k, l) ==
    \/ k[1] < l[1]
    \/ k[1] = l[1] /\ k[2] < l[2]
    \/ k[1] = l[1] /\ k[2] = l[2] /\ k[3] < l[3]

\* the position of a person in a list without repetitions
PositionIn(seq, x) == CHOOSE i \in DOMAIN seq : seq[i] = x

\* out is input put in the order of the keys, equal keys in input order
RankedFrom(out, input, shift) ==
    /\ Len(out) = Len(input)
    /\ Range(out) = Range(input)
    /\ \A i, j \in DOMAIN out :
          i < j =>
             \/ KeyBefore(RankKey(out[i], shift), RankKey(out[j], shift))
             \/ /\ RankKey(out[i], shift) = RankKey(out[j], shift)
                /\ PositionIn(input, out[i]) < PositionIn(input, out[j])

\* C23: rankCandidates returns a permutation of its input in ascending order
\* of usageCount, then (PM slots only) people without preferAM before people
\* with it, then ascending eligibleCount; people equal on the three keys keep
\* their input order. On AM slots preferAM plays no part.
C23_RankerOrder ==
    HasState =>
        \A i \in DOMAIN allSlots : \A r \in Levels :
            RankedFrom(rankCandidates(getEligible(allSlots[i], state, r),
                                      allSlots[i].shift, state, eligibleCount),
                       getEligible(allSlots[i], state, r), allSlots[i].shift)

\* a state with a PM slot whose ranking puts a person with preferAM behind a
\* person of the same usage who stands later in the approved list, and an AM
\* slot with the same two candidates
C23_Witness ==
    /\ Searching
    /\ \E i, j \in DOMAIN allSlots : \E a, b \in ActorSet :
          LET inPM == getEligible(allSlots[i], state, relaxLevel)
              inAM == getEligible(allSlots[j], state, relaxLevel)
          IN  /\ allSlots[i].shift = "PM" /\ allSlots[j].shift = "AM"
              /\ {a, b} \subseteq Range(inPM) /\ {a, b} \subseteq Range(inAM)
              /\ Constraint(a).preferAM /\ ~Constraint(b).preferAM
              /\ state.usageCount[a] = state.usageCount[b]
              /\ PositionIn(inPM, a) < PositionIn(inPM, b)
              /\ LET out == rankCandidates(inPM, "PM", state, eligibleCount)
                 IN  PositionIn(out, b) < PositionIn(out, a)

----------------------------------------------------------------------------
(* C24: the counters and weekShiftUsage agree with the schedule *)

\* the number of PM cells a person holds
PmUsage(sched, actor) ==
    Cardinality({k \in SlotKeys : k[3] = "PM" /\ HasCell(sched, k) /\ CellOf(sched, k) = actor})

\* C24: in every state of a backtracking attempt and of the fallback, for
\* every person, usageCount is the number of schedule cells holding the
\* person, pmCount the number of PM cells holding the person (so
\* 0 <= pmCount <= usageCount), and weekShiftUsage[week][shift][person] the
\* set of scenarios whose cell in that week and shift holds the person.
C24_StateConsistent ==
    HasState =>
        \A a \in ActorSet :
            /\ state.usageCount[a] = Usage(state.schedule, a)
            /\ state.pmCount[a] = PmUsage(state.schedule, a)
            /\ 0 <= state.pmCount[a] /\ state.pmCount[a] <= state.usageCount[a]
            /\ \A wi \in WeekIndexes, sh \in ShiftSet :
                  state.wa[wi][sh][a] = {h[2] : h \in Held(state.schedule, wi, sh, a)}

\* an invocation is at its second or a later candidate (a commitment was
\* undone) while somebody holds a morning and an evening cell
C24_Witness ==
    /\ pc = "loop"
    /\ Top.ci > 1
    /\ \E a \in ActorSet : state.usageCount[a] = 2 /\ state.pmCount[a] = 1

----------------------------------------------------------------------------
(* C25: the greedy fallback *)

\* slot s is visited before slot t: earlier week, else earlier day slot, else
\* AM before PM, else the scenario with fewer approved and available people,
\* else the scenario configured first
VisitedBefore(s, t) ==
    LET ds == PositionIn(SLOT_KEYS, s.slotKey)
        dt == PositionIn(SLOT_KEYS, t.slotKey)
        hs == PositionIn(SHIFTS, s.shift)
        ht == PositionIn(SHIFTS, t.shift)
        cs == candidateCount(s.scenario, s.date, s.shift)
        ct == candidateCount(t.scenario, t.date, t.shift)
    IN  \/ s.wi < t.wi
        \/ s.wi = t.wi /\ ds < dt
        \/ s.wi = t.wi /\ ds = dt /\ hs < ht
        \/ s.wi = t.wi /\ ds = dt /\ hs = ht /\ cs < ct
        \/ /\ s.wi = t.wi /\ ds = dt /\ hs = ht /\ cs = ct
           /\ PositionIn(SlotScenarios(s.slotKey), s.scenario)
                < PositionIn(SlotScenarios(t.slotKey), t.scenario)

\* person a is the first-ranked of the candidate list
FirstRanked(a, cands, shift) ==
    /\ a \in Range(cands)
    /\ \A b \in Range(cands) \ {a} :
          \/ KeyBefore(RankKey(a, shift), RankKey(b, shift))
          \/ /\ RankKey(a, shift) = RankKey(b, shift)
             /\ PositionIn(cands, a) < PositionIn(cands, b)

\* C25: the fallback starts from a fresh state and an empty errors list; it
\* visits every enumerated slot once, weeks, day slots and shifts in
\* enumeration order and the scenarios of a day and shift by ascending count
\* of approved and available people (equal counts in configured order); at
\* each slot it commits the first-ranked candidate of getEligible at level 0
\* when there is one and otherwise leaves the cell null and adds a record;
\* it moves on to the next slot and never back.
C25_GreedyFallback ==
    [][/\ (pc # "fallback" /\ pc' = "fallback") =>
            /\ state' = freshState(skeleton)
            /\ errors' = <<>>
            /\ fbIdx' = 1
            /\ Len(fbSlots') = Len(allSlots)
            /\ Range(fbSlots') = Range(allSlots)
            /\ \A i, j \in DOMAIN fbSlots' : i < j => VisitedBefore(fbSlots'[i], fbSlots'[j])
       /\ (pc = "fallback" /\ fbIdx <= Len(fbSlots)) =>
            /\ pc' = "fallback"
            /\ fbIdx' = fbIdx + 1
            /\ fbSlots' = fbSlots
            /\ LET slot == fbSlots[fbIdx]
                   cands == getEligible(slot, state, 0)
               IN  IF cands # <<>>
                   THEN /\ \E a \in Range(cands) :
                              /\ FirstRanked(a, cands, slot.shift)
                              /\ state'.schedule =
                                    [state.schedule EXCEPT
                                        ![slot.wi][slot.slotKey][slot.shift][slot.scenario] = a]
                        /\ errors' = errors
                   ELSE /\ state' = state
                        /\ Len(errors') = Len(errors) + 1
      ]_vars

\* the fallback has visited every slot in an order that differs from the
\* enumeration, filled a cell, and left null a cell for which somebody is
\* eligible at a relaxed level
C25_Witness ==
    /\ pc = "fallback"
    /\ fbIdx > Len(fbSlots)
    /\ fbSlots # allSlots
    /\ \E i, j \in DOMAIN fbSlots :
          /\ state.schedule[fbSlots[i].wi][fbSlots[i].slotKey][fbSlots[i].shift][fbSlots[i].scenario] # Null
          /\ state.schedule[fbSlots[j].wi][fbSlots[j].slotKey][fbSlots[j].shift][fbSlots[j].scenario] = Null
          /\ getEligible(fbSlots[j], state, 2) # <<>>

----------------------------------------------------------------------------
(* C26: the order of the elimination reasons *)

\* the place of a reason text in the fixed order, 0 for no reason
ReasonClass(reason) ==
    IF reason \in {"Only available AM", "Only available PM", "Not marked available"} THEN 1
    ELSE IF reason = "Already used" THEN 2
    ELSE IF reason = "Only available on" THEN 3
    ELSE IF reason \in {"PM not permitted", "PM cap reached"} THEN 4
    ELSE IF reason = "Conflict rule" THEN 5
    ELSE 0

\* the first of the five conditions that applies to a person for a slot in
\* the current state, 0 when none applies
FirstApplicable(actor, slot) ==
    IF ~isAvailableForShift(DayAvail(slot.date, actor), slot.shift) THEN 1
    ELSE IF state.wa[slot.wi][slot.shift][actor] # {} THEN 2
    ELSE IF /\ Constraint(actor).allowedDays # {}
            /\ DayName(slot.date) \notin Constraint(actor).allowedDays THEN 3
    ELSE IF /\ slot.shift = "PM"
            /\ Constraint(actor).maxPMRatio # NoRatio
            /\ (Constraint(actor).maxPMRatio = 0 \/ AtEveningCap(actor, state)) THEN 4
    ELSE IF ViolatesConflictRule(actor, slot, state) THEN 5
    ELSE 0

\* C26: in the record the fallback adds for an unfilled slot, every approved
\* person to whom one of the five conditions applies has one elimination
\* entry, and its reason is that of the first condition that applies in the
\* order (1) not available for the shift, (2) already used in the week and
\* shift, (3) weekday not in allowedDays, (4) PM not permitted or PM cap
\* reached, (5) conflict rule; a person to whom none applies has no entry.
C26_ReasonOrder ==
    [][(pc = "fallback" /\ Len(errors') = Len(errors) + 1) =>
          LET slot == fbSlots[fbIdx]
              rec == errors'[Len(errors')]
          IN  /\ rec.scenario = slot.scenario /\ rec.weekKey = slot.wi
              /\ rec.slotKey = slot.slotKey /\ rec.shift = slot.shift
              /\ \A i \in DOMAIN rec.eliminations :
                    /\ rec.eliminations[i].actor \in Range(Approved(slot.scenario))
                    /\ ReasonClass(rec.eliminations[i].reason) # 0
                    /\ ReasonClass(rec.eliminations[i].reason)
                          = FirstApplicable(rec.eliminations[i].actor, slot)
              /\ \A a \in Range(Approved(slot.scenario)) :
                    Cardinality({i \in DOMAIN rec.eliminations : rec.eliminations[i].actor = a})
                        = IF FirstApplicable(a, slot) = 0 THEN 0 ELSE 1
      ]_vars

\* a returned record explains one person by the week and shift usage and
\* another by the allowed days or the evening cap
C26_Witness ==
    /\ Done
    /\ \E j \in DOMAIN LastResult.errors :
          \E e1, e2 \in Range(LastResult.errors[j].eliminations) :
              /\ ReasonClass(e1.reason) = 2
              /\ ReasonClass(e2.reason) \in {3, 4}

----------------------------------------------------------------------------
(* C27: every approved person of an unfilled slot is explained *)

\* a record lists the approved people of its scenario and explains each of
\* them, in the order of the list, with a reason
ExplainsEverybody(rec) ==
    /\ rec.approvedActors = Approved(rec.scenario)
    /\ Len(rec.eliminations) = Len(rec.approvedActors)
    /\ \A i \in DOMAIN rec.eliminations :
          /\ rec.eliminations[i].actor = rec.approvedActors[i]
          /\ ReasonClass(rec.eliminations[i].reason) # 0

\* C27: every diagnostic record, while the fallback runs and in every
\* returned value, lists the full approved list of its scenario and has one
\* elimination with a reason for each approved person; its suggestion is
\* the "All N approved actors blocked" one with N the length of the list,
\* never the "eligible but already placed" one.
C27_DiagnosticsComplete ==
    /\ \A j \in DOMAIN errors :
          /\ ExplainsEverybody(errors[j])
          /\ errors[j].suggestion.kind = "All approved actors blocked"
          /\ errors[j].suggestion.count = Len(Approved(errors[j].scenario))
    /\ \A c \in DOMAIN returned : \A j \in DOMAIN returned[c].errors :
          /\ ExplainsEverybody(returned[c].errors[j])
          /\ returned[c].errors[j].suggestion.kind # "eligible but already placed"

\* a returned record explains two approved people, one of them by the
\* allowed days
C27_Witness ==
    /\ Done
    /\ \E j \in DOMAIN LastResult.errors :
          /\ Len(LastResult.errors[j].approvedActors) >= 2
          /\ Len(LastResult.errors[j].eliminations) >= 2
          /\ \E e \in Range(LastResult.errors[j].eliminations) : ReasonClass(e.reason) = 3

----------------------------------------------------------------------------
(* C28: relaxation level 3 against level 2 *)

\* the conflict rule applies to a person and a slot: the person is approved
\* for the slot's scenario, available for its shift, and holds the other
\* scenario of a rule pair in the slot's week and shift
RuleApplies(actor, slot) ==
    /\ actor \in Range(Approved(slot.scenario))
    /\ isAvailableForShift(DayAvail(slot.date, actor), slot.shift)
    /\ ViolatesConflictRule(actor, slot, state)

\* C28 as stated: where the conflict rule applies, level 3 returns the person
\* and level 2 rejects the person, so that level 3 accepts strictly more.
C28_Level3Weaker ==
    HasState =>
        \A i \in DOMAIN allSlots : \A a \in ActorSet :
            RuleApplies(a, allSlots[i]) =>
                /\ a \notin Range(getEligible(allSlots[i], state, 2))
                /\ a \in Range(getEligible(allSlots[i], state, 3))

\* C28 amended: in every search state and for every slot getEligible returns
\* the same list at level 3 as at level 2: a person to whom a conflict rule
\* applies holds a scenario in the week and shift and is rejected by the
\* uniqueness test at every level. The attempt at level 3 repeats the
\* attempt at level 2: it fails with the same number of expansions and
\* never produces the result.
C28_Level3SameAsLevel2 ==
    /\ HasState =>
          \A i \in DOMAIN allSlots :
              /\ getEligible(allSlots[i], state, 3) = getEligible(allSlots[i], state, 2)
              /\ \A a \in ActorSet :
                    RuleApplies(a, allSlots[i]) =>
                        a \notin Range(getEligible(allSlots[i], state, 3))
    /\ ~SucceededAt(3)
    /\ attempts[3].outcome = "failed" =>
          /\ attempts[2].outcome = "failed"
          /\ attempts[3].count = attempts[2].count

\* the attempt at level 3 is in a state where a conflict rule applies to a
\* person and a slot that is still open
C28_Witness ==
    /\ Searching
    /\ relaxLevel = 3
    /\ \E i \in DOMAIN allSlots : \E a \in ActorSet :
          /\ RuleApplies(a, allSlots[i])
          /\ state.schedule[allSlots[i].wi][allSlots[i].slotKey][allSlots[i].shift][allSlots[i].scenario] = Null

----------------------------------------------------------------------------
(* C29: the fallback after exhaustive searches *)

\* C29: when the fallback produced the result and no attempt of the call ran
\* over the expansion budget, the result has at least one null cell and a
\* non-empty errors list.
C29_FallbackLeavesGap ==
    (Done /\ AllLevelsFailed /\ ~BudgetHit) =>
        /\ LastResult.errors # <<>>
        /\ NullCells(LastResult.schedule) # {}

\* the fallback has returned, with some cells filled, after four attempts
\* that stayed within the budget and of which the one at level 2 went
\* through at least three expansions
C29_Witness ==
    /\ Done
    /\ AllLevelsFailed
    /\ ~BudgetHit
    /\ attempts[2].count >= 3
    /\ \E k \in SlotKeys : CellOf(LastResult.schedule, k) # Null

----------------------------------------------------------------------------
(* C30: the availability normalizer *)

\* raw availability values: the booleans, undefined, the three recognised
\* strings and strings that are not recognised
RawAvailValues == {"true", "false", "unset", "both", "am", "pm", "junk", "AM", "Both", ""}

\* the raw values the availability map of the call holds, "unset" for a
\* person it does not list
RawValuesInUse ==
    {DayAvail(WeekPlan(k[1])[k[2]], a) : k \in SlotKeys, a \in ActorSet}

\* C30: normalizeAvail maps true and "both" to "both", "am" to "am", "pm" to
\* "pm" and every other value to false; a value covers a shift exactly when
\* its normal form is "both", or "am" with shift AM, or "pm" with shift PM;
\* a normal form is its own normal form. Checked on the raw values listed
\* and on the values the running call reads from its availability map.
C30_Normalizer ==
    \A v \in RawAvailValues \cup RawValuesInUse :
        /\ v \in {"true", "both"} => normalizeAvail(v) = "both"
        /\ v = "am" => normalizeAvail(v) = "am"
        /\ v = "pm" => normalizeAvail(v) = "pm"
        /\ v \notin {"true", "both", "am", "pm"} => normalizeAvail(v) = "false"
        /\ normalizeAvail(normalizeAvail(v)) = normalizeAvail(v)
        /\ \A sh \in ShiftSet :
              isAvailableForShift(v, sh) <=>
                  \/ normalizeAvail(v) = "both"
                  \/ normalizeAvail(v) = "am" /\ sh = "AM"
                  \/ normalizeAvail(v) = "pm" /\ sh = "PM"

\* a call has returned for an availability map with the legacy true, a
\* morning-only and an unrecognised value; a morning-only person holds an AM
\* cell and a person with the legacy true holds a PM cell
C30_Witness ==
    /\ Done
    /\ {"true", "am", "junk"} \subseteq RawValuesInUse
    /\ \E k1, k2 \in SlotKeys :
          /\ k1[3] = "AM" /\ k2[3] = "PM"
          /\ CellOf(LastResult.schedule, k1) # Null
          /\ CellOf(LastResult.schedule, k2) # Null
          /\ DayAvail(WeekPlan(k1[1])[k1[2]], CellOf(LastResult.schedule, k1)) = "am"
          /\ DayAvail(WeekPlan(k2[1])[k2[2]], CellOf(LastResult.schedule, k2)) = "true"

====
